---- MODULE Spec2Model ----
(***************************************************************************)
(* flare16x: thermal screenshot recovery.  Model of the palette library,   *)
(* the crosshair locator and the thermal core (palette inversion and       *)
(* re-rendering), translated from palettes.c, locator.c and thermal.c.     *)
(***************************************************************************)
EXTENDS Integers, Sequences, FiniteSets, TLC

(***************************************************************************)
(* Bounds of the model                                                     *)
(***************************************************************************)
\* longest free part of a generated canvas or intensity image
MaxPixels == 3
\* largest error budget handed to flare16x_palettes_determine
MaxErrors == 2
\* widest run of image pixels in front of a generated crosshair line
MaxGap == 1
MaxBody == 1
\* most frees of one block that are counted
MaxFrees == 2
\* most palette hits of one cache that are counted
MaxHits == 6

(***************************************************************************)
(* error.h                                                                 *)
(***************************************************************************)
FLARE16X_ERROR_NONE == 0
FLARE16X_ERROR_NULL == 1
FLARE16X_ERROR_MALLOC == 2
FLARE16X_ERROR_LEAK == 3
FLARE16X_ERROR_RANGE == 4
FLARE16X_ERROR_IO == 6
FLARE16X_ERROR_FORMAT == 8
FLARE16X_ERROR_IMAGE == 9
FLARE16X_ERROR_UNKNOWN == 10
FLARE16X_ERROR_ASSERT == 11
FLARE16X_ERROR_CALLEE == 12
FLARE16X_ERROR_OTHER == 13
FLARE16X_ERROR_MASK == 15
FLARE16X_ERROR_WIDTH == 4
FLARE16x_ERROR_CAPACITY == 4
FLARE16X_ERROR_SOURCE_GLOBAL == 0
FLARE16X_ERROR_SOURCE_BITMAP == 1
FLARE16X_ERROR_SOURCE_CANVAS == 2
FLARE16X_ERROR_SOURCE_LOCATOR == 3
FLARE16X_ERROR_SOURCE_OCR == 4
FLARE16X_ERROR_SOURCE_PALETTES == 5
FLARE16X_ERROR_SOURCE_THERMAL == 6
FLARE16X_ERROR_SOURCE_MASK == 240
FLARE16X_ERROR_SOURCE_WIDTH == 4

\* 2^n and bitwise and of two naturals, as the C operators compute them
RECURSIVE Pow2(_)
Pow2(n) == IF n = 0 THEN 1 ELSE 2 * Pow2(n - 1)

RECURSIVE BitAnd(_, _)
BitAnd(a, b) ==
    IF a = 0 \/ b = 0 THEN 0
    ELSE (a % 2) * (b % 2) + 2 * BitAnd(a \div 2, b \div 2)

\* the macro binds as (source & (SOURCE_MASK << WIDTH)) | (error & MASK)
flare16x_error_make(error, source) ==
    LET hi == BitAnd(source, FLARE16X_ERROR_SOURCE_MASK * Pow2(FLARE16X_ERROR_WIDTH))
        lo == BitAnd(error, FLARE16X_ERROR_MASK)
    IN  hi + lo

flare16x_error_reason(error) == BitAnd(error, FLARE16X_ERROR_MASK)

\* uint32 arithmetic: the shifted stack loses its oldest byte
flare16x_error_wrap(new_error, prev_errors) ==
    LET shifted == (prev_errors %
                        Pow2(32 - (FLARE16X_ERROR_WIDTH + FLARE16X_ERROR_SOURCE_WIDTH))) *
                   Pow2(FLARE16X_ERROR_WIDTH + FLARE16X_ERROR_SOURCE_WIDTH)
        low == BitAnd(new_error, FLARE16X_ERROR_SOURCE_MASK + FLARE16X_ERROR_MASK)
    IN  shifted + low

flare16x_error_source(error) ==
    BitAnd(error, FLARE16X_ERROR_SOURCE_MASK) \div Pow2(FLARE16X_ERROR_WIDTH)

flare16x_error_latest(error) ==
    BitAnd(error, FLARE16X_ERROR_SOURCE_MASK + FLARE16X_ERROR_MASK)

\* a pop that leaves the stack as it is
flare16x_error_pop_kept(error) ==
    [latest |-> BitAnd(error, FLARE16X_ERROR_SOURCE_MASK + FLARE16X_ERROR_MASK),
     error |-> error]

\* latest: the value returned, error: the stack left
flare16x_error_pop(error) ==
    [latest |-> BitAnd(error, FLARE16X_ERROR_SOURCE_MASK + FLARE16X_ERROR_MASK),
     error |-> error \div Pow2(FLARE16X_ERROR_WIDTH + FLARE16X_ERROR_SOURCE_WIDTH)]

\* the stack that *prev_errors holds after the call
flare16x_error_push(new_error, prev_errors) ==
    LET shifted == (prev_errors %
                        Pow2(32 - (FLARE16X_ERROR_WIDTH + FLARE16X_ERROR_SOURCE_WIDTH))) *
                   Pow2(FLARE16X_ERROR_WIDTH + FLARE16X_ERROR_SOURCE_WIDTH)
        low == BitAnd(new_error, FLARE16X_ERROR_SOURCE_MASK + FLARE16X_ERROR_MASK)
    IN  shifted + low

(***************************************************************************)
(* canvas.h                                                                *)
(***************************************************************************)
NULL == [null |-> TRUE]

flare16x_canvas_rgb888(r, g, b) ==
    (BitAnd(r, 248) * 256 + BitAnd(g, 252) * 8 + BitAnd(b, 248) \div 8) % 65536

\* a canvas is dense (pixels: row-major sequence) or, for the full-size IR
\* region, sparse (rows: the rows that differ from the background, as runs)
RECURSIVE RunPixel(_, _)
RunPixel(runs, x) ==
    IF runs = << >> THEN -1
    ELSE IF x < Head(runs)[2] THEN Head(runs)[1]
    ELSE RunPixel(Tail(runs), x - Head(runs)[2])

\* canvas->pixels == NULL
canvas_pixels_null(canvas) ==
    "pixels" \notin DOMAIN canvas /\ "rows" \notin DOMAIN canvas

RECURSIVE RunsLength(_)
RunsLength(runs) == IF runs = << >> THEN 0 ELSE Head(runs)[2] + RunsLength(Tail(runs))

\* the pixels lo..hi of line y of a sparse canvas all hold the background color
canvas_background_only(canvas, y, lo, hi) ==
    /\ "rows" \in DOMAIN canvas
    /\ \/ y \notin DOMAIN canvas.rows
       \/ lo >= RunsLength(canvas.rows[y])

flare16x_canvas_raw(x, y, canvas) ==
    IF "rows" \in DOMAIN canvas
    THEN IF y \in DOMAIN canvas.rows
         THEN LET p == RunPixel(canvas.rows[y], x)
              IN  IF p = -1 THEN canvas.background ELSE p
         ELSE canvas.background
    ELSE canvas.pixels[y * canvas.width + x + 1]

(***************************************************************************)
(* locator.h: crosshair colors                                             *)
(***************************************************************************)
FLARE16X_LOCATOR_CROSSHAIR_BORDER == flare16x_canvas_rgb888(0, 0, 0)
FLARE16X_LOCATOR_CROSSHAIR_FILL == flare16x_canvas_rgb888(255, 255, 255)

(***************************************************************************)
(* locator.h                                                               *)
(***************************************************************************)
FLARE16X_LOCATOR_MODEL_TBD == 0
FLARE16X_LOCATOR_MODEL_UNKNOWN == 1
FLARE16X_LOCATOR_MODEL_TG165 == 2
FLARE16X_LOCATOR_MODEL_TG167 == 3

FLARE16X_LOCATOR_STATE_START == 0
FLARE16X_LOCATOR_STATE_BORDER_1 == 1
FLARE16X_LOCATOR_STATE_FILL_1 == 2
FLARE16X_LOCATOR_STATE_BORDER_2 == 3
FLARE16X_LOCATOR_STATE_EYE == 4
FLARE16X_LOCATOR_STATE_BORDER_3 == 5
FLARE16X_LOCATOR_STATE_FILL_2 == 6
FLARE16X_LOCATOR_STATE_BORDER_4 == 7

FLARE16X_LOCATOR_DETECT_FAIL == 0
FLARE16X_LOCATOR_DETECT_BOUNDS == 1
FLARE16X_LOCATOR_DETECT_IMAGE == 2
FLARE16X_LOCATOR_DETECT_CROSSHAIR == 3
FLARE16X_LOCATOR_DETECT_INVALID == 4

FLARE16X_LOCATOR_TEXT_WIDTH == 170
FLARE16X_LOCATOR_TEXT_HEIGHT == 23
FLARE16X_LOCATOR_IR_WIDTH == 150
FLARE16X_LOCATOR_IR_HEIGHT == 175

FLARE16X_LOCATOR_CROSSHAIR_BORDER_WIDTH == 4

FLARE16X_LOCATOR_TG165_CROSSHAIR_HEIGHT == 23
FLARE16X_LOCATOR_TG165_FILL_WIDTH == 7
FLARE16X_LOCATOR_TG165_CENTER_WIDTH == 5
FLARE16X_LOCATOR_TG165_CENTER_HEIGHT == 5
FLARE16X_LOCATOR_TG165_CENTER_OFFSET_X == 9
FLARE16X_LOCATOR_TG165_CENTER_OFFSET_Y == 9
FLARE16X_LOCATOR_TG165_TARGET_ROW == 11

FLARE16X_LOCATOR_TG167_CROSSHAIR_HEIGHT == 47
FLARE16X_LOCATOR_TG167_FILL_WIDTH == 14
FLARE16X_LOCATOR_TG167_CENTER_WIDTH == 17
FLARE16X_LOCATOR_TG167_CENTER_HEIGHT == 17
FLARE16X_LOCATOR_TG167_CENTER_OFFSET_X == 16
FLARE16X_LOCATOR_TG167_CENTER_OFFSET_Y == 15
FLARE16X_LOCATOR_TG167_TARGET_ROW == 23

flare16x_locator_is_within(x, y, roi_x, roi_y, roi_width, roi_height) ==
    x >= roi_x /\ y >= roi_y /\ x < roi_x + roi_width /\ y < roi_y + roi_height

(***************************************************************************)
(* palettes.h, palette_*.c                                                 *)
(***************************************************************************)
FLARE16X_PALETTES_UNKNOWN == 0
FLARE16X_PALETTES_IRON == 1
FLARE16X_PALETTES_GRAYSCALE == 2
FLARE16X_PALETTES_RAINBOW == 3
FLARE16X_PALETTES_COUNT == FLARE16X_PALETTES_RAINBOW
FLARE16X_PALETTES_MIN == FLARE16X_PALETTES_IRON
FLARE16X_PALETTES_MAX == FLARE16X_PALETTES_RAINBOW
FLARE16X_PALETTES_CACHE_SIZE == 4
FLARE16X_PALETTES_IGNORE_ERRORS == 65535

\* flare16x_palette_entry
PE(b, w, c) == [base |-> b, width |-> w, color |-> c]

palette_grayscale_count == 64

\* the 256 bytes of the table read as 64 packed little-endian entries
palette_grayscale ==
    <<
        PE(0, 4, 0), PE(4, 4, 32), PE(8, 4, 2113), PE(12, 4, 2145),
        PE(16, 4, 4226), PE(20, 4, 4258), PE(24, 4, 6339), PE(28, 4, 6371),
        PE(32, 4, 8452), PE(36, 4, 8484), PE(40, 4, 10565), PE(44, 4, 10597),
        PE(48, 4, 12678), PE(52, 4, 12710), PE(56, 4, 14791), PE(60, 4, 14823),
        PE(64, 4, 16904), PE(68, 4, 16936), PE(72, 4, 19017), PE(76, 4, 19049),
        PE(80, 4, 21130), PE(84, 4, 21162), PE(88, 4, 23243), PE(92, 4, 23275),
        PE(96, 4, 25356), PE(100, 4, 25388), PE(104, 4, 27469), PE(108, 4, 27501),
        PE(112, 4, 29582), PE(116, 4, 29614), PE(120, 4, 31695), PE(124, 4, 31727),
        PE(128, 4, 33808), PE(132, 4, 33840), PE(136, 4, 35921), PE(140, 4, 35953),
        PE(144, 4, 38034), PE(148, 4, 38066), PE(152, 4, 40147), PE(156, 4, 40179),
        PE(160, 4, 42260), PE(164, 4, 42292), PE(168, 4, 44373), PE(172, 4, 44405),
        PE(176, 4, 46486), PE(180, 4, 46518), PE(184, 4, 48599), PE(188, 4, 48631),
        PE(192, 4, 50712), PE(196, 4, 50744), PE(200, 4, 52825), PE(204, 4, 52857),
        PE(208, 4, 54938), PE(212, 4, 54970), PE(216, 4, 57051), PE(220, 4, 57083),
        PE(224, 4, 59164), PE(228, 4, 59196), PE(232, 4, 61277), PE(236, 4, 61309),
        PE(240, 4, 63390), PE(244, 4, 63422), PE(248, 4, 65503), PE(0, 4, 65535)
    >>

\* palette_iron.c and palette_rainbow.c are not part of the sources at hand:
\* small tables that follow the data model (sorted, disjoint ranges covering
\* 0..255, unique colors); IRON shares the color 33808 with GRAYSCALE
palette_iron ==
    << PE(0, 1, 1), PE(1, 1, 2051), PE(2, 2, 4101), PE(4, 4, 33808), PE(8, 248, 64512) >>

palette_iron_count == Len(palette_iron)

palette_rainbow ==
    << PE(0, 1, 31), PE(1, 3, 2016), PE(4, 252, 63488) >>

palette_rainbow_count == Len(palette_rainbow)

flare16x_palettes_get(palette_index) ==
    CASE palette_index = FLARE16X_PALETTES_IRON -> palette_iron
      [] palette_index = FLARE16X_PALETTES_GRAYSCALE -> palette_grayscale
      [] palette_index = FLARE16X_PALETTES_RAINBOW -> palette_rainbow
      [] OTHER -> << >>

flare16x_palettes_get_length(palette_index) ==
    CASE palette_index = FLARE16X_PALETTES_IRON -> palette_iron_count
      [] palette_index = FLARE16X_PALETTES_GRAYSCALE -> palette_grayscale_count
      [] palette_index = FLARE16X_PALETTES_RAINBOW -> palette_rainbow_count
      [] OTHER -> 0

\* memset(cache, 0, sizeof(flare16x_palette_cache))
flare16x_palettes_cache_init ==
    [entries |-> [i \in 1..FLARE16X_PALETTES_CACHE_SIZE |-> PE(0, 0, 0)],
     length |-> 0, index |-> 0]

SetMin(S) == CHOOSE m \in S : \A n \in S : m <= n

\* a cache update whose cursor does not move on
cache_update_stuck(cache, entry) ==
    IF cache.length < FLARE16X_PALETTES_CACHE_SIZE
    THEN [entries |-> [cache.entries EXCEPT ![cache.length + 1] = entry],
          length |-> cache.length + 1, index |-> 0]
    ELSE [entries |-> [cache.entries EXCEPT ![cache.index + 1] = entry],
          length |-> cache.length, index |-> cache.index]

\* the cache update after a palette hit (the same lines in find_color,
\* find_value and determine)
cache_update(cache, entry) ==
    IF cache.length < FLARE16X_PALETTES_CACHE_SIZE
    THEN [entries |-> [cache.entries EXCEPT ![cache.length + 1] = entry],
          length |-> cache.length + 1, index |-> 0]
    ELSE [entries |-> [cache.entries EXCEPT ![cache.index + 1] = entry],
          length |-> cache.length,
          index |-> IF cache.index + 1 >= cache.length THEN 0 ELSE cache.index + 1]

flare16x_palettes_find_color(color, palette_index, cache) ==
    LET palette == flare16x_palettes_get(palette_index)
        palette_length == flare16x_palettes_get_length(palette_index)
        cached == {item \in 1..FLARE16X_PALETTES_CACHE_SIZE : cache.entries[item].color = color}
        found == {item \in 1..palette_length : palette[item].color = color}
    IN  IF palette_length < 1
        THEN [error |-> flare16x_error_make(FLARE16X_ERROR_RANGE, FLARE16X_ERROR_SOURCE_PALETTES),
              result_entry |-> NULL, cache |-> cache]
        ELSE IF cached # {}
        THEN [error |-> flare16x_error_make(FLARE16X_ERROR_NONE, FLARE16X_ERROR_SOURCE_PALETTES),
              result_entry |-> cache.entries[SetMin(cached)], cache |-> cache]
        ELSE IF found # {}
        THEN [error |-> flare16x_error_make(FLARE16X_ERROR_NONE, FLARE16X_ERROR_SOURCE_PALETTES),
              result_entry |-> palette[SetMin(found)],
              cache |-> cache_update(cache, palette[SetMin(found)])]
        ELSE [error |-> flare16x_error_make(FLARE16X_ERROR_IMAGE, FLARE16X_ERROR_SOURCE_PALETTES),
              result_entry |-> NULL, cache |-> cache]

flare16x_palettes_find_value(value, palette_index, cache) ==
    LET palette == flare16x_palettes_get(palette_index)
        palette_length == flare16x_palettes_get_length(palette_index)
        cached == {item \in 1..FLARE16X_PALETTES_CACHE_SIZE :
                      cache.entries[item].base <= value /\
                      cache.entries[item].base + cache.entries[item].width > value}
        found == {item \in 1..palette_length :
                      palette[item].base <= value /\
                      palette[item].base + palette[item].width > value}
    IN  IF palette_length < 1
        THEN [error |-> flare16x_error_make(FLARE16X_ERROR_RANGE, FLARE16X_ERROR_SOURCE_PALETTES),
              result_entry |-> NULL, cache |-> cache]
        ELSE IF cached # {}
        THEN [error |-> flare16x_error_make(FLARE16X_ERROR_NONE, FLARE16X_ERROR_SOURCE_PALETTES),
              result_entry |-> cache.entries[SetMin(cached)], cache |-> cache]
        ELSE IF found # {}
        THEN [error |-> flare16x_error_make(FLARE16X_ERROR_NONE, FLARE16X_ERROR_SOURCE_PALETTES),
              result_entry |-> palette[SetMin(found)],
              cache |-> cache_update(cache, palette[SetMin(found)])]
        ELSE [error |-> flare16x_error_make(FLARE16X_ERROR_IMAGE, FLARE16X_ERROR_SOURCE_PALETTES),
              result_entry |-> NULL, cache |-> cache]

\* one pixel of flare16x_palettes_determine: the loop over the palettes
RECURSIVE determine_pixel(_, _, _, _, _)
determine_pixel(p, current_palette, matching_palette, palettes_counts, cache) ==
    IF current_palette > FLARE16X_PALETTES_MAX
    THEN [matching_palette |-> matching_palette, palettes_counts |-> palettes_counts,
          cache |-> cache]
    ELSE LET k == current_palette - FLARE16X_PALETTES_MIN + 1
             cached == \E item \in 1..cache[k].length : cache[k].entries[item].color = p
             counts1 == IF cached THEN [palettes_counts EXCEPT ![k] = @ + 1]
                        ELSE palettes_counts
             matching1 == IF cached THEN current_palette ELSE matching_palette
             palette == flare16x_palettes_get(current_palette)
             found == {item \in 1..flare16x_palettes_get_length(current_palette) :
                          palette[item].color = p}
         IN  IF matching1 # FLARE16X_PALETTES_UNKNOWN
             THEN determine_pixel(p, current_palette + 1, matching1, counts1, cache)
             ELSE IF found # {}
             THEN determine_pixel(p, current_palette + 1, current_palette,
                      [counts1 EXCEPT ![k] = @ + 1],
                      [cache EXCEPT ![k] = cache_update(cache[k], palette[SetMin(found)])])
             ELSE determine_pixel(p, current_palette + 1, matching1, counts1, cache)

\* the loop over all pixels; i = y * width + x
RECURSIVE determine_scan(_, _, _, _, _)
determine_scan(canvas, i, max_errors, palettes_counts, cache) ==
    IF i >= canvas.width * canvas.height
    THEN [failed |-> FALSE, palettes_counts |-> palettes_counts, max_errors |-> max_errors]
    ELSE LET p == flare16x_canvas_raw(i % canvas.width, i \div canvas.width, canvas)
             r == determine_pixel(p, FLARE16X_PALETTES_MIN, FLARE16X_PALETTES_UNKNOWN,
                                  palettes_counts, cache)
             decremented == (max_errors + 65535) % 65536
         IN  IF p = FLARE16X_LOCATOR_CROSSHAIR_BORDER \/ p = FLARE16X_LOCATOR_CROSSHAIR_FILL
             THEN determine_scan(canvas, i + 1, max_errors, palettes_counts, cache)
             ELSE IF r.matching_palette # FLARE16X_PALETTES_UNKNOWN
             THEN determine_scan(canvas, i + 1, max_errors, r.palettes_counts, r.cache)
             ELSE IF max_errors = FLARE16X_PALETTES_IGNORE_ERRORS
             THEN determine_scan(canvas, i + 1, max_errors, r.palettes_counts, r.cache)
             ELSE IF decremented < 1
             THEN [failed |-> TRUE, palettes_counts |-> r.palettes_counts,
                   max_errors |-> decremented]
             ELSE determine_scan(canvas, i + 1, decremented, r.palettes_counts, r.cache)

\* the ranking loop: [highest_palette, equal_palette]
RECURSIVE determine_rank(_, _, _, _, _)
determine_rank(palettes_counts, current_palette, highest_palette, equal_palette, highest_count) ==
    IF current_palette >= FLARE16X_PALETTES_COUNT
    THEN [highest_palette |-> highest_palette, equal_palette |-> equal_palette]
    ELSE IF highest_count < palettes_counts[current_palette + 1]
    THEN determine_rank(palettes_counts, current_palette + 1,
             current_palette + FLARE16X_PALETTES_MIN, equal_palette,
             palettes_counts[current_palette + 1])
    ELSE IF highest_count = palettes_counts[current_palette + 1]
    THEN determine_rank(palettes_counts, current_palette + 1, highest_palette,
             current_palette + FLARE16X_PALETTES_MIN, highest_count)
    ELSE determine_rank(palettes_counts, current_palette + 1, highest_palette,
             equal_palette, highest_count)

\* the verdict on the ranking
determine_verdict(rank) ==
    IF rank.highest_palette = FLARE16X_PALETTES_UNKNOWN \/
       rank.highest_palette = rank.equal_palette
    THEN flare16x_error_make(FLARE16X_ERROR_IMAGE, FLARE16X_ERROR_SOURCE_PALETTES)
    ELSE flare16x_error_make(FLARE16X_ERROR_NONE, FLARE16X_ERROR_SOURCE_PALETTES)

\* assigned: whether *palette_index was written
flare16x_palettes_determine(canvas, max_errors) ==
    LET counts0 == [k \in 1..FLARE16X_PALETTES_COUNT |-> 0]
        cache0 == [k \in 1..FLARE16X_PALETTES_COUNT |-> flare16x_palettes_cache_init]
        scan == determine_scan(canvas, 0, max_errors, counts0, cache0)
        rank == determine_rank(scan.palettes_counts, 0, FLARE16X_PALETTES_UNKNOWN,
                               FLARE16X_PALETTES_UNKNOWN, 0)
    IN  IF canvas = NULL \/ canvas_pixels_null(canvas)
        THEN [error |-> flare16x_error_make(FLARE16X_ERROR_NULL, FLARE16X_ERROR_SOURCE_PALETTES),
              assigned |-> FALSE, palette_index |-> 0, palettes_counts |-> counts0]
        ELSE IF canvas.width = 0 \/ canvas.height = 0
        THEN [error |-> flare16x_error_make(FLARE16X_ERROR_RANGE, FLARE16X_ERROR_SOURCE_PALETTES),
              assigned |-> FALSE, palette_index |-> 0, palettes_counts |-> counts0]
        ELSE IF scan.failed
        THEN [error |-> flare16x_error_make(FLARE16X_ERROR_IMAGE, FLARE16X_ERROR_SOURCE_PALETTES),
              assigned |-> FALSE, palette_index |-> 0,
              palettes_counts |-> scan.palettes_counts]
        ELSE [error |-> determine_verdict(rank), assigned |-> TRUE,
              palette_index |-> rank.highest_palette,
              palettes_counts |-> scan.palettes_counts]

(***************************************************************************)
(* thermal.h                                                               *)
(***************************************************************************)
FLARE16X_THERMAL_QUANTIFICATION_EXACT == 0
FLARE16X_THERMAL_QUANTIFICATION_FLOOR == 1
FLARE16X_THERMAL_QUANTIFICATION_CEILING == 2
FLARE16X_THERMAL_QUANTIFICATION_MEDIAN_HIGH == 3
FLARE16X_THERMAL_QUANTIFICATION_MEDIAN_LOW == 4
FLARE16X_THERMAL_QUANTIFICATION_COUNT == 5

FLARE16X_THERMAL_INTERPOLATION_ZERO == 0
FLARE16X_THERMAL_INTERPOLATION_MIN == 1
FLARE16X_THERMAL_INTERPOLATION_MED == 2
FLARE16X_THERMAL_INTERPOLATION_MAX == 3
FLARE16X_THERMAL_INTERPOLATION_SQUARE_SMALL == 4
FLARE16X_THERMAL_INTERPOLATION_SQUARE_LARGE == 5
FLARE16X_THERMAL_INTERPOLATION_SQUARE_WEIGHT == 6
FLARE16X_THERMAL_INTERPOLATION_COUNT == 7

FLARE16X_THERMAL_MASK_NONE == 0
FLARE16X_THERMAL_MASK_BORDER == 1
FLARE16X_THERMAL_MASK_FILL == 2

\* mask: [width, height, pixels]; offsets relative to (base_x, base_y)
flare16x_thermal_valid(offset_x, offset_y, base_x, base_y, mask) ==
    /\ base_x + offset_x >= 0 /\ base_x + offset_x < mask.width
    /\ base_y + offset_y >= 0 /\ base_y + offset_y < mask.height
    /\ mask.pixels[(base_y + offset_y) * mask.width + (base_x + offset_x) + 1] =
           FLARE16X_LOCATOR_DETECT_IMAGE

(***************************************************************************)
(* locator.c                                                               *)
(***************************************************************************)
uint16(n) == n % 65536

\* the quick pre-scan of one line over x in lo..hi: the counters, and whether
\* they reached the criteria (the for loops are unrolled by halving the range)
RECURSIVE locator_prescan(_, _, _, _, _, _, _)
locator_prescan(ir_canvas, y, lo, hi, c, expected_border, expected_fill) ==
    IF c.reached \/ lo > hi THEN c
    ELSE IF /\ canvas_background_only(ir_canvas, y, lo, hi)
            /\ ir_canvas.background # FLARE16X_LOCATOR_CROSSHAIR_BORDER
            /\ ir_canvas.background # FLARE16X_LOCATOR_CROSSHAIR_FILL
    THEN c      \* no pixel of the range moves a counter
    ELSE IF lo = hi
    THEN LET pixel == flare16x_canvas_raw(lo, y, ir_canvas)
             border1 == IF pixel = FLARE16X_LOCATOR_CROSSHAIR_BORDER
                        THEN c.actual_border + 1 ELSE c.actual_border
             fill1 == IF pixel # FLARE16X_LOCATOR_CROSSHAIR_BORDER /\
                         pixel = FLARE16X_LOCATOR_CROSSHAIR_FILL
                      THEN c.actual_fill + 1 ELSE c.actual_fill
         IN  [actual_border |-> border1, actual_fill |-> fill1,
              reached |-> border1 >= expected_border /\ fill1 >= expected_fill]
    ELSE LET mid == (lo + hi) \div 2
             left == locator_prescan(ir_canvas, y, lo, mid, c, expected_border, expected_fill)
         IN  IF left.reached THEN left
             ELSE locator_prescan(ir_canvas, y, mid + 1, hi, left,
                                  expected_border, expected_fill)

\* one pixel of the pattern search: the switch on the pixel
locator_transition(pixel, s) ==
    IF pixel = FLARE16X_LOCATOR_CROSSHAIR_BORDER
    THEN IF s.state = FLARE16X_LOCATOR_STATE_FILL_1 /\ s.actual_border = 1 /\
            (s.actual_fill = FLARE16X_LOCATOR_TG165_FILL_WIDTH \/
             s.actual_fill = FLARE16X_LOCATOR_TG167_FILL_WIDTH)
         THEN [s EXCEPT !.state = FLARE16X_LOCATOR_STATE_BORDER_2,
                        !.actual_border = @ + 1]
         ELSE IF s.state = FLARE16X_LOCATOR_STATE_EYE /\ s.actual_border = 2 /\
            (s.actual_eye = FLARE16X_LOCATOR_TG165_CENTER_WIDTH \/
             s.actual_eye = FLARE16X_LOCATOR_TG167_CENTER_WIDTH)
         THEN [s EXCEPT !.state = FLARE16X_LOCATOR_STATE_BORDER_3,
                        !.actual_border = @ + 1]
         ELSE IF s.state = FLARE16X_LOCATOR_STATE_FILL_2 /\ s.actual_border = 3 /\
            (s.actual_fill = FLARE16X_LOCATOR_TG165_FILL_WIDTH * 2 \/
             s.actual_fill = FLARE16X_LOCATOR_TG167_FILL_WIDTH * 2)
         THEN [s EXCEPT !.state = FLARE16X_LOCATOR_STATE_BORDER_4,
                        !.actual_border = @ + 1]
         ELSE [state |-> FLARE16X_LOCATOR_STATE_BORDER_1,
               actual_border |-> 1, actual_fill |-> 0, actual_eye |-> 0]
    ELSE IF pixel = FLARE16X_LOCATOR_CROSSHAIR_FILL
    THEN IF s.state = FLARE16X_LOCATOR_STATE_BORDER_1 /\ s.actual_border = 1
         THEN [s EXCEPT !.state = FLARE16X_LOCATOR_STATE_FILL_1, !.actual_fill = @ + 1]
         ELSE IF s.state = FLARE16X_LOCATOR_STATE_BORDER_3 /\ s.actual_border = 3
         THEN [s EXCEPT !.state = FLARE16X_LOCATOR_STATE_FILL_2, !.actual_fill = @ + 1]
         ELSE IF s.state = FLARE16X_LOCATOR_STATE_FILL_1 \/
                 s.state = FLARE16X_LOCATOR_STATE_FILL_2
         THEN [s EXCEPT !.actual_fill = @ + 1]
         ELSE [state |-> FLARE16X_LOCATOR_STATE_START,
               actual_border |-> 0, actual_fill |-> 0, actual_eye |-> 0]
    ELSE IF s.state = FLARE16X_LOCATOR_STATE_BORDER_2 /\ s.actual_border = 2
         THEN [s EXCEPT !.state = FLARE16X_LOCATOR_STATE_EYE, !.actual_eye = @ + 1]
         ELSE IF s.state = FLARE16X_LOCATOR_STATE_EYE
         THEN [s EXCEPT !.actual_eye = @ + 1]
         ELSE [state |-> FLARE16X_LOCATOR_STATE_START,
               actual_border |-> 0, actual_fill |-> 0, actual_eye |-> 0]

\* the model check once the border is finished
locator_model(s) ==
    IF s.actual_border # FLARE16X_LOCATOR_CROSSHAIR_BORDER_WIDTH
    THEN FLARE16X_LOCATOR_MODEL_TBD
    ELSE IF s.actual_fill = FLARE16X_LOCATOR_TG165_FILL_WIDTH * 2 /\
            s.actual_eye = FLARE16X_LOCATOR_TG165_CENTER_WIDTH
    THEN FLARE16X_LOCATOR_MODEL_TG165
    ELSE IF s.actual_fill = FLARE16X_LOCATOR_TG167_FILL_WIDTH * 2 /\
            s.actual_eye = FLARE16X_LOCATOR_TG167_CENTER_WIDTH
    THEN FLARE16X_LOCATOR_MODEL_TG167
    ELSE FLARE16X_LOCATOR_MODEL_TBD

\* the pattern search on a candidate line over x in lo..hi: the state of the
\* machine, the model found and the x it was found at
RECURSIVE locator_search(_, _, _, _, _)
locator_search(ir_canvas, y, lo, hi, r) ==
    IF r.device_model # FLARE16X_LOCATOR_MODEL_TBD \/ lo > hi THEN r
    ELSE IF /\ canvas_background_only(ir_canvas, y, lo, hi)
            /\ ir_canvas.background # FLARE16X_LOCATOR_CROSSHAIR_BORDER
            /\ ir_canvas.background # FLARE16X_LOCATOR_CROSSHAIR_FILL
            /\ r.s.state = FLARE16X_LOCATOR_STATE_START
    THEN r      \* START stays START on pixels that are neither border nor fill
    ELSE IF lo = hi
    THEN LET s1 == locator_transition(flare16x_canvas_raw(lo, y, ir_canvas), r.s)
         IN  [s |-> s1, device_model |-> locator_model(s1), x |-> lo]
    ELSE LET mid == (lo + hi) \div 2
             left == locator_search(ir_canvas, y, lo, mid, r)
         IN  IF left.device_model # FLARE16X_LOCATOR_MODEL_TBD THEN left
             ELSE locator_search(ir_canvas, y, mid + 1, hi, left)

\* the loop over the lines: the first line on which the search succeeds
locator_lines(ir_canvas) ==
    LET expected_border == FLARE16X_LOCATOR_CROSSHAIR_BORDER_WIDTH
        expected_fill ==
            2 * (IF FLARE16X_LOCATOR_TG167_FILL_WIDTH < FLARE16X_LOCATOR_TG165_FILL_WIDTH
                 THEN FLARE16X_LOCATOR_TG167_FILL_WIDTH
                 ELSE FLARE16X_LOCATOR_TG165_FILL_WIDTH)
        search(y) == locator_search(ir_canvas, y, 0, ir_canvas.width - 1,
                         [s |-> [state |-> FLARE16X_LOCATOR_STATE_START,
                                 actual_border |-> 0, actual_fill |-> 0, actual_eye |-> 0],
                          device_model |-> FLARE16X_LOCATOR_MODEL_TBD, x |-> 0])
        hits == {y \in 0..ir_canvas.height - 1 :
                    /\ locator_prescan(ir_canvas, y, 0, ir_canvas.width - 1,
                           [actual_border |-> 0, actual_fill |-> 0, reached |-> FALSE],
                           expected_border, expected_fill).reached
                    /\ search(y).device_model # FLARE16X_LOCATOR_MODEL_TBD}
    IN  IF hits = {}
        THEN [device_model |-> FLARE16X_LOCATOR_MODEL_TBD, x |-> 0, y |-> ir_canvas.height]
        ELSE [device_model |-> search(SetMin(hits)).device_model,
              x |-> search(SetMin(hits)).x, y |-> SetMin(hits)]

\* the fields stored for a match ending at x on line y
locator_geometry(loc, device_model, x, y) ==
    IF device_model = FLARE16X_LOCATOR_MODEL_TG165
    THEN LET crosshair_width == FLARE16X_LOCATOR_CROSSHAIR_BORDER_WIDTH +
                 FLARE16X_LOCATOR_TG165_CENTER_WIDTH + FLARE16X_LOCATOR_TG165_FILL_WIDTH * 2
             crosshair_x == uint16(x + 1 - crosshair_width + 65536)
             crosshair_y == uint16(y - FLARE16X_LOCATOR_TG165_TARGET_ROW + 65536)
         IN  [loc EXCEPT !.device_model = FLARE16X_LOCATOR_MODEL_TG165,
                         !.aperture_height = FLARE16X_LOCATOR_TG165_CENTER_HEIGHT,
                         !.aperture_width = FLARE16X_LOCATOR_TG165_CENTER_WIDTH,
                         !.crosshair_height = FLARE16X_LOCATOR_TG165_CROSSHAIR_HEIGHT,
                         !.crosshair_width = crosshair_width,
                         !.crosshair_x = crosshair_x,
                         !.crosshair_y = crosshair_y,
                         !.aperture_x = uint16(crosshair_x + FLARE16X_LOCATOR_TG165_CENTER_OFFSET_X),
                         !.aperture_y = uint16(crosshair_y + FLARE16X_LOCATOR_TG165_CENTER_OFFSET_Y)]
    ELSE LET crosshair_width == FLARE16X_LOCATOR_CROSSHAIR_BORDER_WIDTH +
                 FLARE16X_LOCATOR_TG167_CENTER_WIDTH + FLARE16X_LOCATOR_TG167_FILL_WIDTH * 2
             crosshair_x == uint16(x + 1 - crosshair_width + 65536)
             crosshair_y == uint16(y - FLARE16X_LOCATOR_TG167_TARGET_ROW + 65536)
         IN  [loc EXCEPT !.device_model = FLARE16X_LOCATOR_MODEL_TG167,
                         !.aperture_height = FLARE16X_LOCATOR_TG167_CENTER_HEIGHT,
                         !.aperture_width = FLARE16X_LOCATOR_TG167_CENTER_WIDTH,
                         !.crosshair_height = FLARE16X_LOCATOR_TG167_CROSSHAIR_HEIGHT,
                         !.crosshair_width = crosshair_width,
                         !.crosshair_x = crosshair_x,
                         !.crosshair_y = crosshair_y,
                         !.aperture_x = uint16(crosshair_x + FLARE16X_LOCATOR_TG167_CENTER_OFFSET_X),
                         !.aperture_y = uint16(crosshair_y + FLARE16X_LOCATOR_TG167_CENTER_OFFSET_Y)]

\* the reason returned when no line holds the pattern
locator_no_pattern == FLARE16X_ERROR_IMAGE

\* a locator whose model is left as it was when no line holds the pattern
locator_unknown_kept(loc) == loc

\* no line holds the pattern: the whole canvas counts as image data
locator_unknown(loc) == [loc EXCEPT !.device_model = FLARE16X_LOCATOR_MODEL_UNKNOWN]

flare16x_locator_process(loc) ==
    LET found == locator_lines(loc.ir_canvas)
    IN  IF loc.text_canvas = NULL \/ loc.ir_canvas = NULL \/
           canvas_pixels_null(loc.text_canvas)
        THEN [error |-> flare16x_error_make(FLARE16X_ERROR_NULL, FLARE16X_ERROR_SOURCE_LOCATOR),
              locator |-> loc]
        ELSE IF loc.text_canvas.width # FLARE16X_LOCATOR_TEXT_WIDTH \/
                loc.text_canvas.height # FLARE16X_LOCATOR_TEXT_HEIGHT \/
                loc.ir_canvas.width # FLARE16X_LOCATOR_IR_WIDTH \/
                loc.ir_canvas.height # FLARE16X_LOCATOR_IR_HEIGHT
        THEN [error |-> flare16x_error_make(FLARE16X_ERROR_RANGE, FLARE16X_ERROR_SOURCE_LOCATOR),
              locator |-> loc]
        ELSE IF found.device_model # FLARE16X_LOCATOR_MODEL_TBD
        THEN [error |-> flare16x_error_make(FLARE16X_ERROR_NONE, FLARE16X_ERROR_SOURCE_LOCATOR),
              locator |-> locator_geometry(loc, found.device_model, found.x, found.y)]
        ELSE [error |-> flare16x_error_make(locator_no_pattern, FLARE16X_ERROR_SOURCE_LOCATOR),
              locator |-> locator_unknown(loc)]

\* the opaque rectangles of the two crosshairs, relative to the crosshair origin
locator_rects_tg165 ==
    << <<6, 6, 11, 3>>, <<0, 10, 6, 3>>, <<17, 10, 6, 3>>, <<10, 17, 3, 6>>,
       <<6, 9, 3, 8>>, <<14, 9, 3, 8>>, <<10, 0, 3, 6>>, <<9, 14, 5, 3>> >>

locator_rects_tg167 ==
    << <<13, 12, 23, 3>>, <<13, 32, 23, 3>>, <<0, 22, 13, 3>>, <<36, 22, 13, 3>>,
       <<23, 35, 3, 12>>, <<13, 15, 3, 17>>, <<33, 15, 3, 17>>, <<23, 0, 3, 12>> >>

flare16x_locator_detect(loc, x, y) ==
    LET in_rects(rects) ==
            \E k \in 1..Len(rects) :
                flare16x_locator_is_within(x, y, loc.crosshair_x + rects[k][1],
                    loc.crosshair_y + rects[k][2], rects[k][3], rects[k][4])
        in_box == flare16x_locator_is_within(x, y, loc.crosshair_x, loc.crosshair_y,
                      loc.crosshair_width, loc.crosshair_height)
    IN  IF loc.ir_canvas = NULL THEN FLARE16X_LOCATOR_DETECT_FAIL
        ELSE IF loc.ir_canvas.width < 1 \/ loc.ir_canvas.height < 1
        THEN FLARE16X_LOCATOR_DETECT_FAIL
        ELSE IF x >= loc.ir_canvas.width \/ y >= loc.ir_canvas.height
        THEN FLARE16X_LOCATOR_DETECT_BOUNDS
        ELSE IF loc.device_model = FLARE16X_LOCATOR_MODEL_TG165
        THEN IF loc.crosshair_height # FLARE16X_LOCATOR_TG165_CROSSHAIR_HEIGHT \/
                loc.crosshair_width # FLARE16X_LOCATOR_CROSSHAIR_BORDER_WIDTH +
                    FLARE16X_LOCATOR_TG165_CENTER_WIDTH + FLARE16X_LOCATOR_TG165_FILL_WIDTH * 2
             THEN FLARE16X_LOCATOR_DETECT_FAIL
             ELSE IF ~in_box THEN FLARE16X_LOCATOR_DETECT_IMAGE
             ELSE IF in_rects(locator_rects_tg165) THEN FLARE16X_LOCATOR_DETECT_CROSSHAIR
             ELSE FLARE16X_LOCATOR_DETECT_IMAGE
        ELSE IF loc.device_model = FLARE16X_LOCATOR_MODEL_TG167
        THEN IF loc.crosshair_height # FLARE16X_LOCATOR_TG167_CROSSHAIR_HEIGHT \/
                loc.crosshair_width # FLARE16X_LOCATOR_CROSSHAIR_BORDER_WIDTH +
                    FLARE16X_LOCATOR_TG167_CENTER_WIDTH + FLARE16X_LOCATOR_TG167_FILL_WIDTH * 2
             THEN FLARE16X_LOCATOR_DETECT_FAIL
             ELSE IF ~in_box THEN FLARE16X_LOCATOR_DETECT_IMAGE
             ELSE IF in_rects(locator_rects_tg167) THEN FLARE16X_LOCATOR_DETECT_CROSSHAIR
             ELSE FLARE16X_LOCATOR_DETECT_IMAGE
        ELSE IF loc.device_model = FLARE16X_LOCATOR_MODEL_UNKNOWN
        THEN FLARE16X_LOCATOR_DETECT_IMAGE
        ELSE FLARE16X_LOCATOR_DETECT_FAIL

(***************************************************************************)
(* ocr.h, ocr.c                                                            *)
(***************************************************************************)
FLARE16X_OCR_LARGE_WIDTH == 18
FLARE16X_OCR_LARGE_HEIGHT == 23
FLARE16X_OCR_LARGE_COLOR == flare16x_canvas_rgb888(255, 255, 255)

FLARE16X_OCR_SMALL_WIDTH == 10
FLARE16X_OCR_SMALL_HEIGHT == 12
FLARE16X_OCR_SMALL_COLOR == flare16x_canvas_rgb888(255, 255, 255)

\* the largest int
INT_MAX == Pow2(30) - 1 + Pow2(30)

\* the sampled pixels of a large glyph, bit 0 first, and its signatures
ocr_large_glyph ==
    [width |-> FLARE16X_OCR_LARGE_WIDTH, height |-> FLARE16X_OCR_LARGE_HEIGHT,
     color |-> FLARE16X_OCR_LARGE_COLOR,
     samples |-> << <<10, 1>>, <<16, 1>>, <<3, 4>>, <<15, 4>>, <<12, 7>>, <<8, 11>>,
                    <<16, 14>>, <<8, 18>> >>,
     chars |-> (65 :> "0") @@ (17 :> "1") @@ (141 :> "2") @@ (53 :> "3") @@ (81 :> "4") @@
               (1 :> "5") @@ (105 :> "6") @@ (187 :> "7") @@ (125 :> "8") @@ (37 :> "9") @@
               (0 :> " ") @@ (40 :> "C") @@ (48 :> "F") @@ (128 :> ".") @@ (132 :> "L") @@
               (32 :> "-") @@ (204 :> "O")]

\* the sampled pixels of a small glyph, bit 0 first, and its signatures
ocr_small_glyph ==
    [width |-> FLARE16X_OCR_SMALL_WIDTH, height |-> FLARE16X_OCR_SMALL_HEIGHT,
     color |-> FLARE16X_OCR_SMALL_COLOR,
     samples |-> << <<3, 1>>, <<5, 2>>, <<1, 4>>, <<6, 5>>, <<4, 8>>, <<7, 8>>,
                    <<5, 10>>, <<7, 10>> >>,
     chars |-> (37 :> "0") @@ (82 :> "1") @@ (208 :> "2") @@ (137 :> "3") @@ (178 :> "4") @@
               (41 :> "5") @@ (109 :> "6") @@ (25 :> "7") @@ (33 :> "8") @@ (192 :> "9") @@
               (0 :> " ") @@ (64 :> ".") @@ (18 :> ":") @@ (201 :> "E")]

\* the signature bits k.. of the glyph at (offset_x, offset_y)
RECURSIVE ocr_signature(_, _, _, _, _)
ocr_signature(glyph, offset_x, offset_y, canvas, k) ==
    IF k > Len(glyph.samples) THEN 0
    ELSE (IF flare16x_canvas_raw(offset_x + glyph.samples[k][1],
                                 offset_y + glyph.samples[k][2], canvas) = glyph.color
          THEN Pow2(k - 1) ELSE 0) +
         ocr_signature(glyph, offset_x, offset_y, canvas, k + 1)

\* a single character; result_char 0 stands for the NUL character
ocr_char(glyph, offset_x, offset_y, canvas) ==
    LET fail(reason) == [error |-> flare16x_error_make(reason, FLARE16X_ERROR_SOURCE_OCR),
                         written |-> FALSE, result_char |-> 0]
        signature == ocr_signature(glyph, offset_x, offset_y, canvas, 1)
    IN  IF canvas = NULL THEN fail(FLARE16X_ERROR_NULL)
        ELSE IF canvas_pixels_null(canvas) THEN fail(FLARE16X_ERROR_NULL)
        ELSE IF canvas.width = 0 \/ canvas.height = 0 THEN fail(FLARE16X_ERROR_FORMAT)
        ELSE IF offset_x + glyph.width > canvas.width \/
                offset_y + glyph.height > canvas.height
        THEN fail(FLARE16X_ERROR_IMAGE)
        ELSE IF signature \in DOMAIN glyph.chars
        THEN [error |-> flare16x_error_make(FLARE16X_ERROR_NONE, FLARE16X_ERROR_SOURCE_OCR),
              written |-> TRUE, result_char |-> glyph.chars[signature]]
        ELSE [error |-> flare16x_error_make(FLARE16X_ERROR_UNKNOWN,
                                            FLARE16X_ERROR_SOURCE_OCR),
              written |-> TRUE, result_char |-> 0]

flare16x_ocr_large_char(offset_x, offset_y, canvas) ==
    ocr_char(ocr_large_glyph, offset_x, offset_y, canvas)

flare16x_ocr_small_char(offset_x, offset_y, canvas) ==
    ocr_char(ocr_small_glyph, offset_x, offset_y, canvas)

\* the range check of a string: (width + pitch) * length + offset_x is an int;
\* beyond INT_MAX the comparison yields passes, whatever the build makes of it
ocr_string_range(glyph, offset_x, offset_y, pitch, length, canvas, passes) ==
    /\ length # 0
    /\ IF length > (INT_MAX - offset_x) \div (glyph.width + pitch)
       THEN passes
       ELSE (glyph.width + pitch) * length + offset_x <= canvas.width + pitch
    /\ offset_y + glyph.height <= canvas.height

\* the loop over the characters src_digit.. of a string
RECURSIVE ocr_string_loop(_, _, _, _, _, _, _, _, _)
ocr_string_loop(glyph, offset_x, offset_y, pitch, length, max_unknown, canvas, src_digit, result_string) ==
    IF src_digit >= length
    THEN [error |-> flare16x_error_make(FLARE16X_ERROR_NONE, FLARE16X_ERROR_SOURCE_OCR),
          result_string |-> result_string]
    ELSE LET r == ocr_char(glyph, uint16((glyph.width + pitch) * src_digit + offset_x),
                           offset_y, canvas)
         IN  IF flare16x_error_reason(r.error) = FLARE16X_ERROR_NONE
             THEN ocr_string_loop(glyph, offset_x, offset_y, pitch, length, max_unknown,
                      canvas, src_digit + 1, Append(result_string, r.result_char))
             ELSE IF flare16x_error_reason(r.error) = FLARE16X_ERROR_UNKNOWN /\
                     max_unknown # 0
             THEN ocr_string_loop(glyph, offset_x, offset_y, pitch, length,
                      max_unknown - 1, canvas, src_digit + 1, result_string)
             ELSE [error |-> r.error, result_string |-> result_string]

\* a string; result_string: the characters in front of the terminator, or
\* the caller's buffer (old) when nothing was written
ocr_string(glyph, offset_x, offset_y, pitch, length, max_unknown, canvas, passes, old) ==
    LET fail(reason) == [error |-> flare16x_error_make(reason, FLARE16X_ERROR_SOURCE_OCR),
                         result_string |-> old]
    IN  IF canvas = NULL THEN fail(FLARE16X_ERROR_NULL)
        ELSE IF canvas_pixels_null(canvas) THEN fail(FLARE16X_ERROR_NULL)
        ELSE IF canvas.width = 0 \/ canvas.height = 0 THEN fail(FLARE16X_ERROR_FORMAT)
        ELSE IF ~ocr_string_range(glyph, offset_x, offset_y, pitch, length, canvas, passes)
        THEN fail(FLARE16X_ERROR_RANGE)
        ELSE ocr_string_loop(glyph, offset_x, offset_y, pitch, length, max_unknown,
                             canvas, 0, << >>)

flare16x_ocr_large_string(offset_x, offset_y, pitch, length, max_unknown, canvas, passes, old) ==
    ocr_string(ocr_large_glyph, offset_x, offset_y, pitch, length, max_unknown, canvas,
               passes, old)

flare16x_ocr_small_string(offset_x, offset_y, pitch, length, max_unknown, canvas, passes, old) ==
    ocr_string(ocr_small_glyph, offset_x, offset_y, pitch, length, max_unknown, canvas,
               passes, old)

(***************************************************************************)
(* thermal.c                                                               *)
(***************************************************************************)
\* memset(thermal, 0, sizeof(flare16x_thermal)); a NULL mask buffer is << >>
thermal_zero ==
    [visible_image |-> NULL, thermal_image |-> NULL, text_image |-> NULL,
     mask |-> [width |-> 0, height |-> 0, pixels |-> << >>],
     device_model |-> 0, spot_x |-> 0, spot_y |-> 0, spot_width |-> 0, spot_height |-> 0,
     temperature_spot |-> 0, emissivity |-> 0]

flare16x_thermal_create(loc, th) ==
    LET fail(reason) ==
            [error |-> flare16x_error_make(reason, FLARE16X_ERROR_SOURCE_THERMAL),
             locator |-> loc, thermal |-> th]
        width == loc.ir_canvas.width
        height == loc.ir_canvas.height
    IN  IF loc.ir_canvas = NULL \/ loc.text_canvas = NULL
        THEN fail(FLARE16X_ERROR_NULL)
        ELSE IF canvas_pixels_null(loc.ir_canvas) \/ canvas_pixels_null(loc.text_canvas)
        THEN fail(FLARE16X_ERROR_NULL)
        ELSE IF loc.ir_canvas.width = 0 \/ loc.ir_canvas.height = 0 \/
                loc.text_canvas.width = 0 \/ loc.text_canvas.height = 0
        THEN fail(FLARE16X_ERROR_RANGE)
        ELSE IF loc.device_model \in {FLARE16X_LOCATOR_MODEL_TG165, FLARE16X_LOCATOR_MODEL_TG167} /\
                (loc.crosshair_width = 0 \/ loc.aperture_width = 0 \/
                 loc.crosshair_height = 0 \/ loc.aperture_height = 0)
        THEN fail(FLARE16X_ERROR_RANGE)
        ELSE IF loc.device_model \notin {FLARE16X_LOCATOR_MODEL_TG165, FLARE16X_LOCATOR_MODEL_TG167,
                                         FLARE16X_LOCATOR_MODEL_UNKNOWN}
        THEN fail(FLARE16X_ERROR_RANGE)
        ELSE [error |-> flare16x_error_make(FLARE16X_ERROR_NONE, FLARE16X_ERROR_SOURCE_THERMAL),
              locator |-> [loc EXCEPT !.ir_canvas = NULL, !.text_canvas = NULL],
              thermal |->
                  [thermal_zero EXCEPT
                      !.mask = [width |-> width, height |-> height,
                                pixels |-> [i \in 1..width * height |->
                                    flare16x_locator_detect(loc, (i - 1) % width,
                                                            (i - 1) \div width)]],
                      !.device_model = loc.device_model,
                      !.spot_width = loc.aperture_width,
                      !.spot_height = loc.aperture_height,
                      !.spot_x = loc.aperture_x,
                      !.spot_y = loc.aperture_y,
                      !.visible_image = loc.ir_canvas,
                      !.text_image = loc.text_canvas]]

\* the / and % of C on int: the quotient is truncated towards zero
CDiv(a, b) == IF a >= 0 THEN a \div b ELSE -((-a) \div b)

CRem(a, b) == a - b * CDiv(a, b)

\* the conversion to int16_t
int16(n) == ((n + 32768) % 65536) - 32768

\* what %d reads from the sign and the digits of a text: "-0" is 0
sscanf_d(text) == IF text.minus THEN -text.integer ELSE text.integer

\* the fractional digit, negated if the integer is negative
thermal_ocr_fractional(temperature_integer, temperature_fractional) ==
    IF temperature_integer < 0 THEN -temperature_fractional ELSE temperature_fractional

\* degrees Celsius
thermal_ocr_celsius(temperature_integer, temperature_fractional) ==
    temperature_integer * 10 + temperature_fractional

\* degrees Fahrenheit, converted to Celsius
thermal_ocr_fahrenheit(temperature_integer, temperature_fractional) ==
    LET temperature == ((temperature_integer - 32) * 10 + temperature_fractional) * 5
    IN  IF CRem(temperature, 9) >= 5 THEN CDiv(temperature + 8, 9)
        ELSE CDiv(temperature, 9)

\* the function from the parsing of the emissivity on, th: the context with
\* the temperature stored; %2hhu stores the value before it is verified
thermal_ocr_emissivity(th, emissivity) ==
    IF ~emissivity.scanned
    THEN [error |-> flare16x_error_make(FLARE16X_ERROR_IMAGE, FLARE16X_ERROR_SOURCE_THERMAL),
          thermal |-> th]
    ELSE IF emissivity.prefix # "E:" \/ emissivity.value = 0 \/ emissivity.value > 99
    THEN [error |-> flare16x_error_make(FLARE16X_ERROR_IMAGE, FLARE16X_ERROR_SOURCE_THERMAL),
          thermal |-> [th EXCEPT !.emissivity = emissivity.value]]
    ELSE [error |-> flare16x_error_make(FLARE16X_ERROR_NONE, FLARE16X_ERROR_SOURCE_THERMAL),
          thermal |-> [th EXCEPT !.emissivity = emissivity.value]]

\* the function from the parsing of the temperature on
thermal_ocr_temperature(th, text, emissivity) ==
    LET temperature_integer == sscanf_d(text)
        temperature_fractional == thermal_ocr_fractional(temperature_integer, text.fractional)
    IN  IF text.unit = ""
        THEN [error |-> flare16x_error_make(FLARE16X_ERROR_IMAGE,
                            FLARE16X_ERROR_SOURCE_THERMAL), thermal |-> th]
        ELSE IF text.unit = "C"
        THEN thermal_ocr_emissivity([th EXCEPT !.temperature_spot =
                 int16(thermal_ocr_celsius(temperature_integer, temperature_fractional))],
                 emissivity)
        ELSE IF text.unit = "F"
        THEN thermal_ocr_emissivity([th EXCEPT !.temperature_spot =
                 int16(thermal_ocr_fahrenheit(temperature_integer, temperature_fractional))],
                 emissivity)
        ELSE [error |-> flare16x_error_make(FLARE16X_ERROR_IMAGE,
                            FLARE16X_ERROR_SOURCE_THERMAL), thermal |-> th]

\* temperature_error, emissivity_error: what the two OCR runs returned; text,
\* emissivity: the strings they recognized (unit "": no third field scanned)
flare16x_thermal_ocr(th, temperature_error, text, emissivity_error, emissivity) ==
    IF th.text_image = NULL
    THEN [error |-> flare16x_error_make(FLARE16X_ERROR_NULL, FLARE16X_ERROR_SOURCE_THERMAL),
          thermal |-> th]
    ELSE IF canvas_pixels_null(th.text_image)
    THEN [error |-> flare16x_error_make(FLARE16X_ERROR_NULL, FLARE16X_ERROR_SOURCE_THERMAL),
          thermal |-> th]
    ELSE IF th.text_image.width # FLARE16X_LOCATOR_TEXT_WIDTH \/
            th.text_image.height # FLARE16X_LOCATOR_TEXT_HEIGHT
    THEN [error |-> flare16x_error_make(FLARE16X_ERROR_RANGE, FLARE16X_ERROR_SOURCE_THERMAL),
          thermal |-> th]
    ELSE IF flare16x_error_reason(temperature_error) # FLARE16X_ERROR_NONE
    THEN [error |-> flare16x_error_wrap(flare16x_error_make(FLARE16X_ERROR_CALLEE,
                        FLARE16X_ERROR_SOURCE_THERMAL), temperature_error),
          thermal |-> th]
    ELSE IF flare16x_error_reason(emissivity_error) # FLARE16X_ERROR_NONE
    THEN [error |-> flare16x_error_wrap(flare16x_error_make(FLARE16X_ERROR_CALLEE,
                        FLARE16X_ERROR_SOURCE_THERMAL), emissivity_error),
          thermal |-> th]
    ELSE thermal_ocr_temperature(th, text, emissivity)

\* the quantification with CEILING one past the entry's range
thermal_quantify_past(palette_entry, quantification_mode) ==
    IF quantification_mode = FLARE16X_THERMAL_QUANTIFICATION_CEILING
    THEN [value |-> (palette_entry.width + palette_entry.base) % 256,
          uncertainty |-> palette_entry.width]
    ELSE [value |-> palette_entry.base, uncertainty |-> palette_entry.width]

\* value and uncertainty of a point from its palette entry (the inner switch)
thermal_quantify(palette_entry, quantification_mode) ==
    CASE quantification_mode \in {FLARE16X_THERMAL_QUANTIFICATION_EXACT,
                                  FLARE16X_THERMAL_QUANTIFICATION_FLOOR} ->
             [value |-> palette_entry.base, uncertainty |-> palette_entry.width]
      [] quantification_mode = FLARE16X_THERMAL_QUANTIFICATION_CEILING ->
             [value |-> ((palette_entry.width - 1) + palette_entry.base) % 256,
              uncertainty |-> palette_entry.width]
      [] quantification_mode = FLARE16X_THERMAL_QUANTIFICATION_MEDIAN_LOW ->
             [value |-> (((palette_entry.width - 1) \div 2) + palette_entry.base) % 256,
              uncertainty |-> palette_entry.width]
      [] quantification_mode = FLARE16X_THERMAL_QUANTIFICATION_MEDIAN_HIGH ->
             [value |-> ((palette_entry.width \div 2) + palette_entry.base) % 256,
              uncertainty |-> palette_entry.width]

\* EXACT without the check of the width
thermal_exact_any(palette_entry) == palette_entry.width >= 1

\* EXACT accepts an entry only if it stands for one intensity
thermal_exact_ok(palette_entry) == palette_entry.width = 1

Running == -1

\* an image pixel of the first pass, found: what flare16x_palettes_find_color
\* returned for its color
thermal_first_image(s, i, start1, found, quantification_mode) ==
    IF flare16x_error_reason(found.error) = FLARE16X_ERROR_IMAGE
    THEN [s EXCEPT !.mask[i] = FLARE16X_LOCATOR_DETECT_INVALID,
                   !.start_y = start1,
                   !.skipped_points = @ + 1,
                   !.palette_cache = found.cache]
    ELSE IF flare16x_error_reason(found.error) # FLARE16X_ERROR_NONE
    THEN [s EXCEPT !.error = flare16x_error_wrap(flare16x_error_make(
                       FLARE16X_ERROR_CALLEE, FLARE16X_ERROR_SOURCE_THERMAL), found.error)]
    ELSE IF found.result_entry.width < 1
    THEN [s EXCEPT !.error = flare16x_error_make(FLARE16X_ERROR_IMAGE, FLARE16X_ERROR_RANGE)]
    ELSE IF quantification_mode = FLARE16X_THERMAL_QUANTIFICATION_EXACT /\
            ~thermal_exact_ok(found.result_entry)
    THEN [s EXCEPT !.error = flare16x_error_make(FLARE16X_ERROR_IMAGE,
                                 FLARE16X_ERROR_SOURCE_THERMAL)]
    ELSE [s EXCEPT !.palette_cache = found.cache,
                   !.value_med_sum = @ + found.result_entry.base,
                   !.value_med_count = @ + 1,
                   !.value_max = IF @ < found.result_entry.base
                                 THEN found.result_entry.base ELSE @,
                   !.value_min = IF @ > found.result_entry.base
                                 THEN found.result_entry.base ELSE @,
                   !.points[i] = thermal_quantify(found.result_entry, quantification_mode)]

\* one pixel of the first pass; s.error is Running until the function returns
thermal_first_pixel(visible_image, x, y, s, palette_index, interpolation_mode, quantification_mode) ==
    LET i == y * visible_image.width + x + 1
        start1 == IF s.start_y < 0 THEN y ELSE s.start_y
    IN  IF s.mask[i] = FLARE16X_LOCATOR_DETECT_IMAGE
        THEN thermal_first_image(s, i, start1,
                 flare16x_palettes_find_color(flare16x_canvas_raw(x, y, visible_image),
                                              palette_index, s.palette_cache),
                 quantification_mode)
        ELSE IF s.mask[i] = FLARE16X_LOCATOR_DETECT_CROSSHAIR
        THEN IF interpolation_mode = FLARE16X_THERMAL_INTERPOLATION_ZERO
             THEN [s EXCEPT !.start_y = start1,
                            !.points[i] = [value |-> 0, uncertainty |-> 1]]
             ELSE [s EXCEPT !.start_y = start1, !.skipped_points = @ + 1]
        ELSE [s EXCEPT !.error = flare16x_error_make(FLARE16X_ERROR_RANGE,
                                     FLARE16X_ERROR_SOURCE_THERMAL)]

\* the first pass over the pixels lo..hi (row-major), halving the range
RECURSIVE thermal_first_pass(_, _, _, _, _, _, _)
thermal_first_pass(visible_image, lo, hi, s, palette_index, interpolation_mode, quantification_mode) ==
    IF s.error # Running \/ lo > hi THEN s
    ELSE IF lo = hi
    THEN thermal_first_pixel(visible_image, lo % visible_image.width,
                             lo \div visible_image.width, s, palette_index,
                             interpolation_mode, quantification_mode)
    ELSE thermal_first_pass(visible_image, (lo + hi) \div 2 + 1, hi,
             thermal_first_pass(visible_image, lo, (lo + hi) \div 2, s, palette_index,
                                interpolation_mode, quantification_mode),
             palette_index, interpolation_mode, quantification_mode)

\* sum and count of the valid points within radius of (x, y), weighted,
\* over the points lo..hi of the image
RECURSIVE thermal_square(_, _, _, _, _, _, _, _)
thermal_square(points, mask, x, y, radius, weight, lo, hi) ==
    IF lo > hi THEN [sum |-> 0, count |-> 0]
    ELSE IF lo = hi
    THEN LET px == lo % mask.width
             py == lo \div mask.width
         IN  IF px - x >= -radius /\ px - x <= radius /\
                py - y >= -radius /\ py - y <= radius /\
                flare16x_thermal_valid(px - x, py - y, x, y, mask)
             THEN [sum |-> points[lo + 1].value * weight, count |-> weight]
             ELSE [sum |-> 0, count |-> 0]
    ELSE LET mid == (lo + hi) \div 2
             a == thermal_square(points, mask, x, y, radius, weight, lo, mid)
             b == thermal_square(points, mask, x, y, radius, weight, mid + 1, hi)
         IN  [sum |-> a.sum + b.sum, count |-> a.count + b.count]

thermal_square_add(a, b, c) ==
    [sum |-> a.sum + b.sum + c.sum, count |-> a.count + b.count + c.count]

\* the kernels a square interpolation mode adds up (the switch falls through)
thermal_square_total(points, mask, x, y, interpolation_mode) ==
    LET last == mask.width * mask.height - 1
        weight_scale == IF interpolation_mode = FLARE16X_THERMAL_INTERPOLATION_SQUARE_WEIGHT
                        THEN 4 ELSE 1
    IN  thermal_square_add(
            IF interpolation_mode = FLARE16X_THERMAL_INTERPOLATION_SQUARE_LARGE
            THEN thermal_square(points, mask, x, y, 6, 1, 0, last)
            ELSE [sum |-> 0, count |-> 0],
            IF interpolation_mode \in {FLARE16X_THERMAL_INTERPOLATION_SQUARE_LARGE,
                                       FLARE16X_THERMAL_INTERPOLATION_SQUARE_WEIGHT}
            THEN thermal_square(points, mask, x, y, 1, weight_scale, 0, last)
            ELSE [sum |-> 0, count |-> 0],
            thermal_square(points, mask, x, y, 2, 1, 0, last))

\* the average of a square, or the failure when it holds no valid point
thermal_square_value(s, total) ==
    IF total.count < 1
    THEN [s EXCEPT !.error = flare16x_error_make(FLARE16X_ERROR_IMAGE,
                                 FLARE16X_ERROR_SOURCE_THERMAL)]
    ELSE [s EXCEPT !.value_med = (total.sum \div total.count) % 256]

\* the interpolation of a pixel that is no image pixel; s: the pass with the
\* pixel cleared in the mask and counted, t: s after a square was averaged
thermal_interpolate(s, t, i, interpolation_mode) ==
    CASE interpolation_mode = FLARE16X_THERMAL_INTERPOLATION_MIN ->
             [s EXCEPT !.points[i] = [value |-> s.value_min, uncertainty |-> 1]]
      [] interpolation_mode = FLARE16X_THERMAL_INTERPOLATION_MAX ->
             [s EXCEPT !.points[i] = [value |-> s.value_max, uncertainty |-> 1]]
      [] interpolation_mode = FLARE16X_THERMAL_INTERPOLATION_MED ->
             [s EXCEPT !.points[i] = [value |-> s.value_med, uncertainty |-> 1]]
      [] interpolation_mode \in {FLARE16X_THERMAL_INTERPOLATION_SQUARE_LARGE,
                                 FLARE16X_THERMAL_INTERPOLATION_SQUARE_WEIGHT,
                                 FLARE16X_THERMAL_INTERPOLATION_SQUARE_SMALL} ->
             IF t.error # Running THEN t
             ELSE [t EXCEPT !.points[i] = [value |-> t.value_med, uncertainty |-> 1]]
      [] OTHER ->
             [s EXCEPT !.error = flare16x_error_make(FLARE16X_ERROR_ASSERT,
                                     FLARE16X_ERROR_SOURCE_THERMAL)]

\* the pixel counted, an invalid one left in the mask
thermal_second_skipped_kept(s, i) == [s EXCEPT !.skipped_points = @ - 1]

\* a pixel of the second pass that is no image pixel: cleared in the mask if
\* it was invalid, and counted
thermal_second_skipped(s, i) ==
    [s EXCEPT !.mask[i] = IF @ = FLARE16X_LOCATOR_DETECT_INVALID
                          THEN FLARE16X_LOCATOR_DETECT_IMAGE ELSE @,
              \* uint32; -1 stands for 0xffffffff, the counter is only compared with 0
              !.skipped_points = @ - 1]

thermal_second_square(s, x, y, width, height, interpolation_mode) ==
    IF interpolation_mode \in {FLARE16X_THERMAL_INTERPOLATION_SQUARE_LARGE,
                               FLARE16X_THERMAL_INTERPOLATION_SQUARE_WEIGHT,
                               FLARE16X_THERMAL_INTERPOLATION_SQUARE_SMALL}
    THEN thermal_square_value(s,
             thermal_square_total(s.points,
                 [width |-> width, height |-> height, pixels |-> s.mask],
                 x, y, interpolation_mode))
    ELSE s

thermal_second_replace(s, x, y, width, height, interpolation_mode) ==
    thermal_interpolate(s, thermal_second_square(s, x, y, width, height,
                                                 interpolation_mode),
                        y * width + x + 1, interpolation_mode)

\* one pixel of the second pass
thermal_second_pixel(x, y, s, width, height, interpolation_mode) ==
    IF s.mask[y * width + x + 1] = FLARE16X_LOCATOR_DETECT_IMAGE THEN s
    ELSE IF s.mask[y * width + x + 1] \in {FLARE16X_LOCATOR_DETECT_INVALID,
                                           FLARE16X_LOCATOR_DETECT_CROSSHAIR}
    THEN thermal_second_replace(thermal_second_skipped(s, y * width + x + 1), x, y,
                                width, height, interpolation_mode)
    ELSE [s EXCEPT !.error = flare16x_error_make(FLARE16X_ERROR_ASSERT,
                                 FLARE16X_ERROR_SOURCE_THERMAL)]

\* the second pass over the pixels lo..hi (row-major), halving the range
RECURSIVE thermal_second_pass(_, _, _, _, _, _)
thermal_second_pass(lo, hi, s, width, height, interpolation_mode) ==
    IF s.error # Running \/ lo > hi THEN s
    ELSE IF lo = hi
    THEN thermal_second_pixel(lo % width, lo \div width, s, width, height,
                              interpolation_mode)
    ELSE thermal_second_pass((lo + hi) \div 2 + 1, hi,
             thermal_second_pass(lo, (lo + hi) \div 2, s, width, height,
                                 interpolation_mode),
             width, height, interpolation_mode)

\* a failure after the image was allocated: the image is destroyed
thermal_process_fail(th, err, s, palette_index, second_pass) ==
    [error |-> err,
     thermal |-> [th EXCEPT !.thermal_image = NULL, !.mask.pixels = s.mask],
     palette_index |-> palette_index,
     skipped_points |-> s.skipped_points, second_pass |-> second_pass,
     allocated |-> TRUE]

\* success: the image and the mask as the passes left them
thermal_process_done(th, quantification_mode, s, palette_index, second_pass) ==
    [error |-> flare16x_error_make(FLARE16X_ERROR_NONE, FLARE16X_ERROR_SOURCE_THERMAL),
     thermal |-> [th EXCEPT !.thermal_image =
                                [width |-> th.visible_image.width,
                                 height |-> th.visible_image.height,
                                 mode |-> quantification_mode, points |-> s.points],
                            !.mask.pixels = s.mask],
     palette_index |-> palette_index,
     skipped_points |-> s.skipped_points, second_pass |-> second_pass,
     allocated |-> TRUE]

\* a return before anything was allocated
thermal_process_early(th, err) ==
    [error |-> err, thermal |-> th, palette_index |-> FLARE16X_PALETTES_UNKNOWN,
     skipped_points |-> 0, second_pass |-> FALSE, allocated |-> FALSE]

\* the end of the function, second: the state after the second pass
thermal_process_second(th, quantification_mode, palette_index, second) ==
    IF second.error # Running
    THEN thermal_process_fail(th, second.error, second, palette_index, TRUE)
    ELSE IF second.skipped_points # 0
    THEN thermal_process_fail(th, flare16x_error_make(FLARE16X_ERROR_ASSERT,
             FLARE16X_ERROR_SOURCE_THERMAL), second, palette_index, TRUE)
    ELSE thermal_process_done(th, quantification_mode, second, palette_index, TRUE)

\* the function from the end of the first pass on, first: the state after it
thermal_process_first(th, interpolation_mode, quantification_mode, palette_index, first) ==
    IF first.error # Running
    THEN thermal_process_fail(th, first.error, first, palette_index, FALSE)
    ELSE IF first.value_min > first.value_max
    THEN thermal_process_fail(th, flare16x_error_make(FLARE16X_ERROR_ASSERT,
             FLARE16X_ERROR_SOURCE_THERMAL), first, palette_index, FALSE)
    ELSE IF first.skipped_points = 0
    THEN thermal_process_done(th, quantification_mode, first, palette_index, FALSE)
    ELSE IF first.start_y < 0 \/ first.value_med_count < 1
    THEN thermal_process_fail(th, flare16x_error_make(FLARE16X_ERROR_ASSERT,
             FLARE16X_ERROR_SOURCE_THERMAL), first, palette_index, FALSE)
    ELSE thermal_process_second(th, quantification_mode, palette_index,
             thermal_second_pass(first.start_y * th.visible_image.width,
                 th.visible_image.width * th.visible_image.height - 1,
                 [points |-> first.points, mask |-> first.mask,
                  skipped_points |-> first.skipped_points,
                  value_min |-> first.value_min, value_max |-> first.value_max,
                  value_med |-> (first.value_med_sum \div first.value_med_count) % 256,
                  error |-> Running],
                 th.visible_image.width, th.visible_image.height, interpolation_mode))

\* the function from the palette analysis on, determined: what
\* flare16x_palettes_determine returned; junk: what the fresh points hold
thermal_process_determined(th, interpolation_mode, quantification_mode, junk, determined) ==
    IF flare16x_error_reason(determined.error) # FLARE16X_ERROR_NONE
    THEN thermal_process_early(th, flare16x_error_wrap(flare16x_error_make(
             FLARE16X_ERROR_CALLEE, FLARE16X_ERROR_SOURCE_THERMAL), determined.error))
    ELSE thermal_process_first(th, interpolation_mode, quantification_mode,
             determined.palette_index,
             thermal_first_pass(th.visible_image, 0,
                 th.visible_image.width * th.visible_image.height - 1,
                 [points |-> [i \in 1..th.visible_image.width * th.visible_image.height |->
                                 [value |-> junk, uncertainty |-> junk]],
                  mask |-> th.mask.pixels, skipped_points |-> 0,
                  value_med_sum |-> 0, value_med_count |-> 0,
                  value_min |-> 255, value_max |-> 0, start_y |-> -1,
                  palette_cache |-> flare16x_palettes_cache_init, error |-> Running],
                 determined.palette_index, interpolation_mode, quantification_mode))

\* junk: what the freshly allocated points hold
\* no old image is looked for
thermal_process_leak_never(th) == FALSE

\* there is an old thermal image that has to be destroyed first
thermal_process_leak(th) == th.thermal_image # NULL

flare16x_thermal_process(th, interpolation_mode, quantification_mode, junk) ==
    IF th.visible_image = NULL
    THEN thermal_process_early(th, flare16x_error_make(FLARE16X_ERROR_NULL,
             FLARE16X_ERROR_SOURCE_THERMAL))
    ELSE IF canvas_pixels_null(th.visible_image)
    THEN thermal_process_early(th, flare16x_error_make(FLARE16X_ERROR_NULL,
             FLARE16X_ERROR_SOURCE_THERMAL))
    ELSE IF interpolation_mode >= FLARE16X_THERMAL_INTERPOLATION_COUNT \/
            quantification_mode >= FLARE16X_THERMAL_QUANTIFICATION_COUNT
    THEN thermal_process_early(th, flare16x_error_make(FLARE16X_ERROR_RANGE,
             FLARE16X_ERROR_SOURCE_THERMAL))
    ELSE IF th.visible_image.width < 1 \/ th.visible_image.height < 1
    THEN thermal_process_early(th, flare16x_error_make(FLARE16X_ERROR_RANGE,
             FLARE16X_ERROR_SOURCE_THERMAL))
    ELSE IF thermal_process_leak(th)
    THEN thermal_process_early(th, flare16x_error_make(FLARE16X_ERROR_LEAK,
             FLARE16X_ERROR_SOURCE_THERMAL))
    ELSE thermal_process_determined(th, interpolation_mode, quantification_mode, junk,
             flare16x_palettes_determine(th.visible_image, FLARE16X_PALETTES_IGNORE_ERRORS))

\* one point of the rendering loop, found: what flare16x_palettes_find_value
\* returned for its value
thermal_export_point(s, i, found) ==
    IF flare16x_error_reason(found.error) # FLARE16X_ERROR_NONE
    THEN [s EXCEPT !.error = flare16x_error_wrap(flare16x_error_make(
                       FLARE16X_ERROR_CALLEE, FLARE16X_ERROR_SOURCE_THERMAL), found.error)]
    ELSE IF found.result_entry.width < 1
    THEN [s EXCEPT !.error = flare16x_error_make(FLARE16X_ERROR_IMAGE, FLARE16X_ERROR_RANGE)]
    ELSE [s EXCEPT !.palette_cache = found.cache, !.pixels[i] = found.result_entry.color]

\* the rendering loop over the points lo..hi, halving the range
RECURSIVE thermal_export_pass(_, _, _, _, _)
thermal_export_pass(points, lo, hi, s, palette_index) ==
    IF s.error # Running \/ lo > hi THEN s
    ELSE IF lo = hi
    THEN thermal_export_point(s, lo + 1,
             flare16x_palettes_find_value(points[lo + 1].value, palette_index,
                                          s.palette_cache))
    ELSE thermal_export_pass(points, (lo + hi) \div 2 + 1, hi,
             thermal_export_pass(points, lo, (lo + hi) \div 2, s, palette_index),
             palette_index)

\* the end of the function, pass: the state after the rendering loop; a
\* destroyed canvas is zeroed
thermal_export_result(image, pass) ==
    IF pass.error # Running
    THEN [error |-> pass.error, canvas |-> [width |-> 0, height |-> 0]]
    ELSE [error |-> flare16x_error_make(FLARE16X_ERROR_NONE, FLARE16X_ERROR_SOURCE_THERMAL),
          canvas |-> [width |-> image.width, height |-> image.height,
                      pixels |-> pass.pixels]]

\* out: the caller's canvas struct; the fresh pixel buffer is written in full
\* or freed before it can be read
flare16x_thermal_export(th, palette_index, out) ==
    IF th.thermal_image = NULL
    THEN [error |-> flare16x_error_make(FLARE16X_ERROR_NULL, FLARE16X_ERROR_SOURCE_THERMAL),
          canvas |-> out]
    ELSE IF th.thermal_image.width < 1 \/ th.thermal_image.height < 1
    THEN [error |-> flare16x_error_make(FLARE16X_ERROR_RANGE, FLARE16X_ERROR_SOURCE_THERMAL),
          canvas |-> out]
    ELSE IF flare16x_palettes_get_length(palette_index) < 1
    THEN [error |-> flare16x_error_make(FLARE16X_ERROR_RANGE, FLARE16X_ERROR_SOURCE_THERMAL),
          canvas |-> out]
    ELSE thermal_export_result(th.thermal_image,
             thermal_export_pass(th.thermal_image.points, 0,
                 th.thermal_image.width * th.thermal_image.height - 1,
                 [pixels |-> [i \in 1..th.thermal_image.width * th.thermal_image.height |-> 0],
                  palette_cache |-> flare16x_palettes_cache_init, error |-> Running],
                 palette_index))

\* a run that ends in front of an image pixel gets no closing border
crosshair_closes_never(cross_length) == FALSE

\* a run in fill state that ends in front of an image pixel: its last pixel
\* becomes a border pixel
crosshair_closes(cross_length) == cross_length > 1

\* one mask pixel of a pass: at is the pixel, back the pixel before it on the
\* line; the first, horizontal, pass also fills
crosshair_pixel(s, mask, at, back, crosshair_border, crosshair_fill, fills) ==
    IF mask = FLARE16X_LOCATOR_DETECT_IMAGE
    THEN IF s.cross_state = FLARE16X_THERMAL_MASK_FILL
         THEN [s EXCEPT !.pixels[back] = IF crosshair_closes(s.cross_length)
                                         THEN crosshair_border ELSE @,
                        !.cross_state = FLARE16X_THERMAL_MASK_NONE,
                        !.cross_length = 0]
         ELSE IF s.cross_state = FLARE16X_THERMAL_MASK_BORDER
         THEN [s EXCEPT !.cross_state = FLARE16X_THERMAL_MASK_NONE, !.cross_length = 0]
         ELSE s
    ELSE IF mask = FLARE16X_LOCATOR_DETECT_CROSSHAIR
    THEN IF s.cross_state \in {FLARE16X_THERMAL_MASK_BORDER, FLARE16X_THERMAL_MASK_FILL}
         THEN [s EXCEPT !.pixels[at] = IF fills THEN crosshair_fill ELSE @,
                        !.cross_state = FLARE16X_THERMAL_MASK_FILL,
                        !.cross_length = @ + 1]
         ELSE [s EXCEPT !.pixels[at] = crosshair_border,
                        !.cross_state = FLARE16X_THERMAL_MASK_BORDER,
                        !.cross_length = @ + 1]
    ELSE [s EXCEPT !.error = flare16x_error_make(FLARE16X_ERROR_RANGE,
                                                 FLARE16X_ERROR_SOURCE_THERMAL)]

\* the k-th pixel visited by a pass and the one visited before it
crosshair_at(k, width, height, horizontal) ==
    IF horizontal THEN k + 1 ELSE (k % height) * width + (k \div height) + 1

\* a pass over the pixels k.. of the mask, line by line (horizontal) or
\* column by column; the state machine starts afresh on every line
RECURSIVE crosshair_pass(_, _, _, _, _, _)
crosshair_pass(s, k, th, crosshair_border, crosshair_fill, horizontal) ==
    LET width == th.mask.width
        height == th.mask.height
        line == IF horizontal THEN width ELSE height
        fresh == IF k % line = 0
                 THEN [s EXCEPT !.cross_state = FLARE16X_THERMAL_MASK_NONE,
                                !.cross_length = 0]
                 ELSE s
        at == crosshair_at(k, width, height, horizontal)
        back == IF k % line = 0 THEN at ELSE crosshair_at(k - 1, width, height, horizontal)
    IN  IF s.error # Running \/ k >= width * height THEN s
        ELSE crosshair_pass(
                 crosshair_pixel(fresh, th.mask.pixels[at], at, back,
                                 crosshair_border, crosshair_fill, horizontal),
                 k + 1, th, crosshair_border, crosshair_fill, horizontal)

flare16x_thermal_crosshair(crosshair_border, crosshair_fill, th, out) ==
    IF out = NULL \/ th.mask.pixels = << >>
    THEN [error |-> flare16x_error_make(FLARE16X_ERROR_NULL, FLARE16X_ERROR_SOURCE_THERMAL),
          canvas |-> out]
    ELSE IF canvas_pixels_null(out)
    THEN [error |-> flare16x_error_make(FLARE16X_ERROR_NULL, FLARE16X_ERROR_SOURCE_THERMAL),
          canvas |-> out]
    ELSE IF th.mask.width # out.width \/ th.mask.height # out.height \/
            out.width < 1 \/ out.height < 1
    THEN [error |-> flare16x_error_make(FLARE16X_ERROR_RANGE, FLARE16X_ERROR_SOURCE_THERMAL),
          canvas |-> out]
    ELSE LET first == crosshair_pass([pixels |-> out.pixels,
                                      cross_state |-> FLARE16X_THERMAL_MASK_NONE,
                                      cross_length |-> 0, error |-> Running],
                                     0, th, crosshair_border, crosshair_fill, TRUE)
             second == crosshair_pass(first, 0, th, crosshair_border, crosshair_fill, FALSE)
         IN  [error |-> IF second.error # Running THEN second.error
                        ELSE flare16x_error_make(FLARE16X_THERMAL_MASK_NONE,
                                                 FLARE16X_ERROR_SOURCE_THERMAL),
              canvas |-> [out EXCEPT !.pixels = second.pixels]]

\* frees the images and the mask and zeroes the struct
flare16x_thermal_destroy(th) == thermal_zero

\* a new image of exact quantification; its points are the caller's to store
flare16x_thermal_image_init(width, height) ==
    IF width < 1 \/ height < 1
    THEN [error |-> flare16x_error_make(FLARE16X_ERROR_RANGE, FLARE16X_ERROR_SOURCE_THERMAL),
          image |-> NULL]
    ELSE [error |-> flare16x_error_make(FLARE16X_ERROR_NONE, FLARE16X_ERROR_SOURCE_THERMAL),
          image |-> [width |-> width, height |-> height,
                     mode |-> FLARE16X_THERMAL_QUANTIFICATION_EXACT, points |-> << >>]]

(***************************************************************************)
(* State                                                                   *)
(***************************************************************************)
VARIABLES
    locator,          \* flare16x_locator
    thermal,          \* flare16x_thermal
    canvas,           \* the canvas flare16x_thermal_export writes (main: canvas2)
    palette,          \* the palette index flare16x_palettes_determine writes (main: palette)
    error,            \* the flare16x_error the last call returned
    call,             \* the last call and its arguments
    palettes_counts,  \* the hit counts of the last flare16x_palettes_determine
    process_palette,  \* the palette index the last flare16x_thermal_process worked with
    rendered,         \* the palette and the points of the last successful export
    heap,             \* the blocks the locator and the thermal context own
    palette_cache     \* a flare16x_palette_cache of a caller of the lookups

vars == << locator, thermal, canvas, palette, error, call, palettes_counts,
           process_palette, rendered, heap, palette_cache >>

\* colors that occur on generated canvases: the two crosshair colors, two
\* GRAYSCALE-only grays, the gray shared by IRON and GRAYSCALE, two IRON-only
\* colors, a RAINBOW-only color and a color of no palette
Colors == {FLARE16X_LOCATOR_CROSSHAIR_BORDER, FLARE16X_LOCATOR_CROSSHAIR_FILL,
           32, 65503, 33808, 1, 64512, 31, 4660}

SeqsUpTo(S, n) == UNION {[1..k -> S] : k \in 1..n}

DenseCanvases(pixelSeqs) ==
    {[width |-> w, height |-> h, pixels |-> px] :
        <<w, h, px>> \in {t \in (1..MaxPixels + 4) \X (1..MaxPixels + 4) \X pixelSeqs :
                             t[1] * t[2] = Len(t[3])}}

locator_zero ==
    [text_canvas |-> NULL, ir_canvas |-> NULL, crosshair_x |-> 0, crosshair_y |-> 0,
     crosshair_width |-> 0, crosshair_height |-> 0, aperture_x |-> 0, aperture_y |-> 0,
     aperture_width |-> 0, aperture_height |-> 0, device_model |-> 0]

no_call == [op |-> "none"]
no_counts == [k \in 1..FLARE16X_PALETTES_COUNT |-> 0]
no_render == [palette_index |-> FLARE16X_PALETTES_UNKNOWN, points |-> << >>]

(***************************************************************************)
(* malloc and free                                                         *)
(***************************************************************************)
\* the blocks: the pixel buffer of the full screenshot canvas, the two canvas
\* structs of the locator and their pixel buffers, the mask, the intensity
\* image and its points
HeapBlocks ==
    {"full_pixels", "text_canvas", "text_pixels", "ir_canvas", "ir_pixels",
     "mask", "thermal_image", "points"}

\* live: allocated and not freed; frees: the free calls on the block since
\* its malloc; stale: the block was read or written while it was not live
heap_zero == [b \in HeapBlocks |-> [live |-> FALSE, frees |-> 0, stale |-> FALSE]]

heap_malloc(h, b) == [h EXCEPT ![b] = [live |-> TRUE, frees |-> 0, stale |-> FALSE]]

\* free(pointer), is_null: the pointer is NULL
heap_free(h, is_null, b) ==
    IF is_null THEN h
    ELSE [h EXCEPT ![b] = [live |-> FALSE,
                           frees |-> IF @.frees < MaxFrees THEN @.frees + 1 ELSE @.frees,
                           stale |-> @.stale]]

heap_use(h, b) == IF h[b].live THEN h ELSE [h EXCEPT ![b].stale = TRUE]

\* the heap of a program that holds the locator loc and nothing else
heap_of(loc) ==
    LET text == IF loc.text_canvas = NULL THEN heap_zero
                ELSE heap_malloc(heap_malloc(heap_zero, "text_canvas"), "text_pixels")
    IN  IF loc.ir_canvas = NULL THEN text
        ELSE heap_malloc(heap_malloc(text, "ir_canvas"), "ir_pixels")

\* flare16x_canvas_destroy of the canvas struct c in block struct_block
flare16x_canvas_destroy(h, c, struct_block, pixels_block) ==
    IF c = NULL THEN h
    ELSE heap_free(heap_use(h, struct_block), canvas_pixels_null(c), pixels_block)

\* the frees of flare16x_locator_destroy
locator_destroy_frees(h, loc) ==
    LET text == flare16x_canvas_destroy(h, loc.text_canvas, "text_canvas", "text_pixels")
        ir == flare16x_canvas_destroy(text, loc.ir_canvas, "ir_canvas", "ir_pixels")
    IN  heap_free(heap_free(ir, loc.text_canvas = NULL, "text_canvas"),
                  loc.ir_canvas = NULL, "ir_canvas")

flare16x_locator_destroy(h, loc) ==
    [error |-> flare16x_error_make(FLARE16X_ERROR_NONE, FLARE16X_ERROR_SOURCE_LOCATOR),
     locator |-> locator_zero, heap |-> locator_destroy_frees(h, loc)]

\* a canvas struct from malloc: its fields hold what the memory held before,
\* junk = 0: the pixels pointer happens to be NULL
canvas_malloc(junk) ==
    IF junk = 0 THEN [width |-> junk, height |-> junk]
    ELSE [width |-> junk, height |-> junk, pixels |-> << >>]

\* flare16x_canvas_copy into a canvas struct, region: the copied region;
\* only its malloc can fail on a screenshot of the expected size
flare16x_canvas_copy(h, region, copied, pixels_block) ==
    IF copied
    THEN [error |-> flare16x_error_make(FLARE16X_ERROR_NONE, FLARE16X_ERROR_SOURCE_CANVAS),
          canvas |-> region, heap |-> heap_malloc(h, pixels_block)]
    ELSE [error |-> flare16x_error_make(FLARE16X_ERROR_MALLOC, FLARE16X_ERROR_SOURCE_CANVAS),
          canvas |-> [width |-> region.width, height |-> region.height], heap |-> h]

\* the function after the two canvas structs were allocated
locator_create_copy(h, text, ir, fail_at, junk) ==
    LET copy_text == flare16x_canvas_copy(h, text, fail_at # "text_copy", "text_pixels")
        copy_ir == flare16x_canvas_copy(copy_text.heap, ir, fail_at # "ir_copy", "ir_pixels")
    IN  IF flare16x_error_reason(copy_text.error) # FLARE16X_ERROR_NONE
        THEN [error |-> flare16x_error_wrap(flare16x_error_make(FLARE16X_ERROR_CALLEE,
                            FLARE16X_ERROR_SOURCE_LOCATOR), copy_text.error),
              locator |-> [locator_zero EXCEPT !.text_canvas = copy_text.canvas,
                                               !.ir_canvas = canvas_malloc(junk)],
              heap |-> copy_text.heap]
        ELSE IF flare16x_error_reason(copy_ir.error) # FLARE16X_ERROR_NONE
        THEN [error |-> flare16x_error_wrap(flare16x_error_make(FLARE16X_ERROR_CALLEE,
                            FLARE16X_ERROR_SOURCE_LOCATOR), copy_ir.error),
              locator |-> [locator_zero EXCEPT !.text_canvas = copy_text.canvas,
                                               !.ir_canvas = copy_ir.canvas],
              heap |-> copy_ir.heap]
        ELSE [error |-> flare16x_error_make(FLARE16X_ERROR_NONE,
                            FLARE16X_ERROR_SOURCE_LOCATOR),
              locator |-> [locator_zero EXCEPT !.text_canvas = copy_text.canvas,
                                               !.ir_canvas = copy_ir.canvas],
              heap |-> heap_free(copy_ir.heap, FALSE, "full_pixels")]

\* text, ir: the two regions of a screenshot of the expected size; fail_at:
\* the allocation that fails, if any; junk: what malloc'ed memory holds
flare16x_locator_create(h, text, ir, fail_at, junk) ==
    IF fail_at = "bitmap_edit"
    THEN [error |-> flare16x_error_wrap(flare16x_error_make(FLARE16X_ERROR_CALLEE,
                        FLARE16X_ERROR_SOURCE_LOCATOR),
                        flare16x_error_make(FLARE16X_ERROR_MALLOC,
                            FLARE16X_ERROR_SOURCE_BITMAP)),
          locator |-> locator_zero, heap |-> h]
    ELSE IF fail_at = "text_canvas"
    THEN [error |-> flare16x_error_make(FLARE16X_ERROR_MALLOC, FLARE16X_ERROR_SOURCE_LOCATOR),
          locator |-> locator_zero, heap |-> heap_malloc(h, "full_pixels")]
    ELSE IF fail_at = "ir_canvas"
    THEN [error |-> flare16x_error_make(FLARE16X_ERROR_MALLOC, FLARE16X_ERROR_SOURCE_LOCATOR),
          locator |-> [locator_zero EXCEPT !.text_canvas = canvas_malloc(junk)],
          heap |-> heap_free(heap_malloc(heap_malloc(h, "full_pixels"), "text_canvas"),
                             FALSE, "text_canvas")]
    ELSE locator_create_copy(heap_malloc(heap_malloc(heap_malloc(h, "full_pixels"),
                                 "text_canvas"), "ir_canvas"), text, ir, fail_at, junk)

\* flare16x_thermal_image_destroy and free of the image struct
thermal_image_frees(h, image) ==
    IF image = NULL THEN h
    ELSE heap_free(heap_free(heap_use(h, "thermal_image"), FALSE, "points"),
                   FALSE, "thermal_image")

\* the frees of flare16x_thermal_destroy, repeated without a NULL test
thermal_destroy_frees_again(h, th) ==
    LET image == thermal_image_frees(h, [width |-> 0])
        text == heap_free(flare16x_canvas_destroy(image, [width |-> 0], "text_canvas",
                              "text_pixels"), FALSE, "text_canvas")
        visible == heap_free(flare16x_canvas_destroy(text, [width |-> 0], "ir_canvas",
                                 "ir_pixels"), FALSE, "ir_canvas")
    IN  heap_free(visible, FALSE, "mask")

\* the frees of flare16x_thermal_destroy
thermal_destroy_frees(h, th) ==
    LET image == thermal_image_frees(h, th.thermal_image)
        text == heap_free(flare16x_canvas_destroy(image, th.text_image, "text_canvas",
                              "text_pixels"), th.text_image = NULL, "text_canvas")
        visible == heap_free(flare16x_canvas_destroy(text, th.visible_image, "ir_canvas",
                                 "ir_pixels"), th.visible_image = NULL, "ir_canvas")
    IN  heap_free(visible, th.mask.pixels = << >>, "mask")

\* the mallocs and frees of flare16x_thermal_process, r: what it returned
thermal_process_heap(h, r) ==
    IF ~r.allocated THEN h
    ELSE IF r.thermal.thermal_image = NULL
    THEN thermal_image_frees(heap_malloc(heap_malloc(h, "thermal_image"), "points"),
                             [width |-> 0])
    ELSE heap_malloc(heap_malloc(h, "thermal_image"), "points")

(***************************************************************************)
(* Palette determination on its own (main: "Palette det")                  *)
(***************************************************************************)
InitPalettes ==
    /\ locator \in {[locator_zero EXCEPT !.ir_canvas = c] :
                       c \in DenseCanvases(SeqsUpTo(Colors, MaxPixels))}
    /\ thermal = thermal_zero
    /\ canvas = NULL
    /\ palette = FLARE16X_PALETTES_UNKNOWN
    /\ error = FLARE16X_ERROR_NONE
    /\ call = no_call
    /\ palettes_counts = no_counts
    /\ process_palette = FLARE16X_PALETTES_UNKNOWN
    /\ rendered = no_render
    /\ heap = heap_of(locator)
    /\ palette_cache = flare16x_palettes_cache_init

palettes_determine(max_errors) ==
    /\ call.op = "none"
    /\ LET r == flare16x_palettes_determine(locator.ir_canvas, max_errors)
       IN  /\ error' = r.error
           /\ palette' = IF r.assigned THEN r.palette_index ELSE palette
           /\ palettes_counts' = r.palettes_counts
    /\ call' = [op |-> "determine", max_errors |-> max_errors]
    /\ UNCHANGED << locator, thermal, canvas, process_palette, rendered, heap, palette_cache >>

NextPalettes ==
    \E max_errors \in (0..MaxErrors) \cup {FLARE16X_PALETTES_IGNORE_ERRORS} :
        palettes_determine(max_errors)

SpecPalettes == InitPalettes /\ [][NextPalettes]_vars

(***************************************************************************)
(* The locator on a full-size IR region (main: "Locator run")              *)
(***************************************************************************)
\* a color that is neither border nor fill (the darkest green step)
EyeColor == flare16x_canvas_rgb888(0, 4, 0)

\* what may stand in front of the pattern on its line
Prefixes ==
    { << >>,
      << <<FLARE16X_LOCATOR_CROSSHAIR_BORDER, 1>> >>,
      << <<FLARE16X_LOCATOR_CROSSHAIR_FILL, 1>> >>,
      << <<FLARE16X_LOCATOR_CROSSHAIR_BORDER, 1>>, <<FLARE16X_LOCATOR_CROSSHAIR_FILL, 7>> >>,
      << <<FLARE16X_LOCATOR_CROSSHAIR_BORDER, 1>>, <<FLARE16X_LOCATOR_CROSSHAIR_FILL, 14>> >>,
      << <<FLARE16X_LOCATOR_CROSSHAIR_BORDER, 1>>, <<FLARE16X_LOCATOR_CROSSHAIR_FILL, 7>>,
         <<FLARE16X_LOCATOR_CROSSHAIR_BORDER, 1>>, <<EyeColor, 5>> >> }

\* BORDER, f1 x FILL, BORDER, e x EYE, BORDER, f2 x FILL, BORDER
PatternRuns(f1, e, f2) ==
    << <<FLARE16X_LOCATOR_CROSSHAIR_BORDER, 1>>, <<FLARE16X_LOCATOR_CROSSHAIR_FILL, f1>>,
       <<FLARE16X_LOCATOR_CROSSHAIR_BORDER, 1>>, <<EyeColor, e>>,
       <<FLARE16X_LOCATOR_CROSSHAIR_BORDER, 1>>, <<FLARE16X_LOCATOR_CROSSHAIR_FILL, f2>>,
       <<FLARE16X_LOCATOR_CROSSHAIR_BORDER, 1>> >>

GapRuns(gap) == IF gap = 0 THEN << >> ELSE << <<EyeColor, gap>> >>

FirstLines ==
    {GapRuns(gap) \o prefix \o PatternRuns(f1, e, f2) :
        gap \in 0..MaxGap, prefix \in Prefixes,
        f1 \in {7, 14}, e \in {5, 17}, f2 \in {7, 14, 21}}

SecondLines == {<< >>, PatternRuns(7, 5, 7)}

LineYs == {0, 30}

IrCanvases ==
    {[width |-> FLARE16X_LOCATOR_IR_WIDTH, height |-> FLARE16X_LOCATOR_IR_HEIGHT,
      background |-> EyeColor,
      rows |-> [y \in {y0, y0 + 2} |-> IF y = y0 THEN first ELSE second]] :
        y0 \in LineYs, first \in FirstLines, second \in SecondLines}

TextCanvas ==
    [width |-> FLARE16X_LOCATOR_TEXT_WIDTH, height |-> FLARE16X_LOCATOR_TEXT_HEIGHT,
     background |-> 0, rows |-> << >>]

InitLocator ==
    /\ locator \in {[locator_zero EXCEPT !.ir_canvas = c, !.text_canvas = TextCanvas] :
                       c \in IrCanvases}
    /\ thermal = thermal_zero
    /\ canvas = NULL
    /\ palette = FLARE16X_PALETTES_UNKNOWN
    /\ error = FLARE16X_ERROR_NONE
    /\ call = no_call
    /\ palettes_counts = no_counts
    /\ process_palette = FLARE16X_PALETTES_UNKNOWN
    /\ rendered = no_render
    /\ heap = heap_of(locator)
    /\ palette_cache = flare16x_palettes_cache_init

locator_process ==
    /\ call.op = "none"
    /\ LET r == flare16x_locator_process(locator)
       IN  /\ error' = r.error
           /\ locator' = r.locator
    /\ call' = [op |-> "locator_process"]
    /\ UNCHANGED << thermal, canvas, palette, palettes_counts, process_palette, rendered, heap,
                    palette_cache >>

NextLocator == locator_process

SpecLocator == InitLocator /\ [][NextLocator]_vars
(***************************************************************************)
(* The thermal core on small images (main: "Thermal create", "Thermal      *)
(* proc", "Thermal export")                                                *)
(***************************************************************************)
\* black and white (the first and the last GRAYSCALE color), a GRAYSCALE-only
\* gray, the gray shared by IRON and GRAYSCALE, two IRON-only colors and a
\* color of no palette
ThermalColors == {0, 65535, 32, 33808, 1, 2051, 4660}

\* four more grays, enough to fill the palette cache
WarmColors == << 2113, 2145, 4226, 4258 >>

\* intensities: the first two (width 1 in IRON), one further down, one in the
\* middle and the highest four-step
ThermalValues == {0, 1, 5, 130, 252}

\* four more intensities, of four different GRAYSCALE entries
WarmValues == << 8, 12, 16, 20 >>

Bodies(S, warm) ==
    SeqsUpTo(S, MaxBody) \cup {warm \o body : body \in SeqsUpTo(S, MaxBody)}

ThermalCanvases == DenseCanvases(Bodies(ThermalColors, WarmColors))

\* images as canvases of intensities
ThermalImages == DenseCanvases(Bodies(ThermalValues, WarmValues))

\* the first line of a TG165 crosshair box that sits at the origin: the image
\* pixels left of the crosshair's upper arm (a body, then gray), then the arm
\* itself (border, fill, border)
CrosshairArm == locator_rects_tg165[7]

CrosshairLine(body) ==
    body \o [i \in 1..CrosshairArm[1] - Len(body) |-> WarmColors[1]] \o
    << FLARE16X_LOCATOR_CROSSHAIR_BORDER >> \o
    [i \in 1..CrosshairArm[3] - 2 |-> FLARE16X_LOCATOR_CROSSHAIR_FILL] \o
    << FLARE16X_LOCATOR_CROSSHAIR_BORDER >>

\* a gray of the palette or a color of no palette in front
CrosshairCanvases ==
    {[width |-> CrosshairArm[1] + CrosshairArm[3], height |-> 1,
      pixels |-> CrosshairLine(body)] : body \in SeqsUpTo({32, 4660}, MaxBody)}

\* what flare16x_locator_process stores for a TG165 pattern whose box starts
\* at the origin
CrosshairLocators ==
    {locator_geometry([locator_zero EXCEPT !.ir_canvas = c, !.text_canvas = TextCanvas],
                      FLARE16X_LOCATOR_MODEL_TG165,
                      FLARE16X_LOCATOR_CROSSHAIR_BORDER_WIDTH +
                          FLARE16X_LOCATOR_TG165_CENTER_WIDTH +
                          FLARE16X_LOCATOR_TG165_FILL_WIDTH * 2 - 1,
                      FLARE16X_LOCATOR_TG165_TARGET_ROW) : c \in CrosshairCanvases}

InitThermal ==
    /\ locator \in {locator_zero} \cup CrosshairLocators \cup
           {[locator_zero EXCEPT !.ir_canvas = c, !.text_canvas = TextCanvas,
                                 !.device_model = FLARE16X_LOCATOR_MODEL_UNKNOWN] :
               c \in ThermalCanvases}
    /\ thermal = thermal_zero
    /\ canvas = NULL
    /\ palette = FLARE16X_PALETTES_UNKNOWN
    /\ error = FLARE16X_ERROR_NONE
    /\ call = no_call
    /\ palettes_counts = no_counts
    /\ process_palette = FLARE16X_PALETTES_UNKNOWN
    /\ rendered = no_render
    /\ heap = heap_of(locator)
    /\ palette_cache = flare16x_palettes_cache_init

\* the caller builds an EXACT image and stores its intensities
thermal_image_init(image) ==
    /\ call.op = "none"
    /\ locator.ir_canvas = NULL
    /\ LET r == flare16x_thermal_image_init(image.width, image.height)
       IN  /\ error' = r.error
           /\ thermal' = [thermal EXCEPT !.thermal_image =
                             [r.image EXCEPT !.points =
                                 [i \in 1..Len(image.pixels) |->
                                     [value |-> image.pixels[i], uncertainty |-> 1]]]]
    /\ heap' = heap_malloc(heap_malloc(heap, "thermal_image"), "points")
    /\ call' = [op |-> "thermal_image_init"]
    /\ UNCHANGED << locator, canvas, palette, palettes_counts, process_palette, rendered,
                    palette_cache >>

\* the exported canvas becomes the IR region of a screenshot without crosshair
locator_load ==
    /\ call.op = "thermal_export"
    /\ flare16x_error_reason(error) = FLARE16X_ERROR_NONE
    /\ thermal.visible_image = NULL
    /\ locator' = [locator_zero EXCEPT !.ir_canvas = canvas, !.text_canvas = TextCanvas,
                                       !.device_model = FLARE16X_LOCATOR_MODEL_UNKNOWN]
    /\ thermal' = flare16x_thermal_destroy(thermal)
    /\ canvas' = NULL
    /\ heap' = heap_of(locator')
    /\ call' = [op |-> "locator_load"]
    /\ UNCHANGED << palette, error, palettes_counts, process_palette, rendered, palette_cache >>

thermal_create ==
    /\ call.op \in {"none", "locator_load"}
    /\ locator.ir_canvas # NULL
    /\ \E r \in {flare16x_thermal_create(locator, thermal)} :
           /\ error' = r.error
           /\ locator' = r.locator
           /\ thermal' = r.thermal
           /\ heap' = IF flare16x_error_reason(r.error) = FLARE16X_ERROR_NONE
                      THEN heap_malloc(heap, "mask") ELSE heap
    /\ call' = [op |-> "thermal_create"]
    /\ UNCHANGED << canvas, palette, palettes_counts, process_palette, rendered, palette_cache >>

thermal_process(interpolation_mode, quantification_mode, junk) ==
    /\ \E r \in {flare16x_thermal_process(thermal, interpolation_mode,
                                          quantification_mode, junk)} :
           /\ error' = r.error
           /\ thermal' = r.thermal
           /\ process_palette' = r.palette_index
           /\ heap' = thermal_process_heap(heap, r)
           /\ call' = [op |-> "thermal_process",
                       interpolation_mode |-> interpolation_mode,
                       quantification_mode |-> quantification_mode,
                       skipped_points |-> r.skipped_points,
                       second_pass |-> r.second_pass]
    /\ UNCHANGED << locator, canvas, palette, palettes_counts, rendered, palette_cache >>

thermal_export(palette_index) ==
    /\ call.op \in {"thermal_image_init", "thermal_process"}
    /\ flare16x_error_reason(error) = FLARE16X_ERROR_NONE
    /\ \E r \in {flare16x_thermal_export(thermal, palette_index, canvas)} :
           /\ error' = r.error
           /\ canvas' = r.canvas
           /\ rendered' = IF flare16x_error_reason(r.error) = FLARE16X_ERROR_NONE
                          THEN [palette_index |-> palette_index,
                                points |-> thermal.thermal_image.points]
                          ELSE rendered
    /\ call' = [op |-> "thermal_export", palette_index |-> palette_index]
    /\ UNCHANGED << locator, thermal, palette, palettes_counts, process_palette, heap, palette_cache >>

JunkValues == {0, 170}

NextThermal ==
    \/ \E image \in ThermalImages : thermal_image_init(image)
    \/ locator_load
    \/ thermal_create
    \/ /\ call.op = "thermal_create"
       /\ \E interpolation_mode \in 0..FLARE16X_THERMAL_INTERPOLATION_COUNT - 1,
             quantification_mode \in 0..FLARE16X_THERMAL_QUANTIFICATION_COUNT - 1,
             junk \in JunkValues :
              thermal_process(interpolation_mode, quantification_mode, junk)
    \/ \E palette_index \in FLARE16X_PALETTES_MIN..FLARE16X_PALETTES_MAX :
           thermal_export(palette_index)

SpecThermal == InitThermal /\ [][NextThermal]_vars

(***************************************************************************)
(* The reading of the temperature and the emissivity                       *)
(***************************************************************************)
\* the largest integer part of a recognized temperature
MaxDegrees == 40

\* the temperature strings sscanf is given: sign, digits, fractional digit
\* and unit ("": the third field is missing)
TemperatureTexts ==
    [minus : BOOLEAN, integer : 0..MaxDegrees, fractional : 0..9,
     unit : {"C", "F", "K", ""}]

\* the emissivity strings sscanf is given
EmissivityTexts ==
    [scanned : BOOLEAN, prefix : {"E:", "T:"}, value : {0, 95}]

\* what the OCR of a string returns
OcrErrors ==
    {flare16x_error_make(FLARE16X_ERROR_NONE, FLARE16X_ERROR_SOURCE_OCR),
     flare16x_error_make(FLARE16X_ERROR_IMAGE, FLARE16X_ERROR_SOURCE_OCR)}

InitOcr ==
    /\ locator \in CrosshairLocators
    /\ thermal = thermal_zero
    /\ canvas = NULL
    /\ palette = FLARE16X_PALETTES_UNKNOWN
    /\ error = FLARE16X_ERROR_NONE
    /\ call = no_call
    /\ palettes_counts = no_counts
    /\ process_palette = FLARE16X_PALETTES_UNKNOWN
    /\ rendered = no_render
    /\ heap = heap_of(locator)
    /\ palette_cache = flare16x_palettes_cache_init

thermal_ocr ==
    /\ call.op \in {"none", "thermal_create"}
    /\ \E temperature_error \in OcrErrors, text \in TemperatureTexts,
          emissivity_error \in OcrErrors, emissivity \in EmissivityTexts :
           /\ \E r \in {flare16x_thermal_ocr(thermal, temperature_error, text,
                                             emissivity_error, emissivity)} :
                  /\ error' = r.error
                  /\ thermal' = r.thermal
           /\ call' = [op |-> "thermal_ocr", temperature_error |-> temperature_error,
                       text |-> text, emissivity_error |-> emissivity_error]
    /\ UNCHANGED << locator, canvas, palette, palettes_counts, process_palette, rendered,
                    heap, palette_cache >>

NextOcr ==
    \/ thermal_create
    \/ thermal_ocr

SpecOcr == InitOcr /\ [][NextOcr]_vars

(***************************************************************************)
(* The end of the contexts (main: "Thermal destroy", "Locator destroy")    *)
(***************************************************************************)
InitDestroy ==
    /\ locator \in {locator_zero} \cup CrosshairLocators
    /\ thermal = thermal_zero
    /\ canvas = NULL
    /\ palette = FLARE16X_PALETTES_UNKNOWN
    /\ error = FLARE16X_ERROR_NONE
    /\ call = no_call
    /\ palettes_counts = no_counts
    /\ process_palette = FLARE16X_PALETTES_UNKNOWN
    /\ rendered = no_render
    /\ heap = heap_of(locator)
    /\ palette_cache = flare16x_palettes_cache_init

locator_destroy ==
    /\ \E r \in {flare16x_locator_destroy(heap, locator)} :
           /\ error' = r.error
           /\ locator' = r.locator
           /\ heap' = r.heap
    /\ call' = [op |-> "locator_destroy"]
    /\ UNCHANGED << thermal, canvas, palette, palettes_counts, process_palette, rendered,
                    palette_cache >>

thermal_destroy ==
    /\ thermal' = flare16x_thermal_destroy(thermal)
    /\ heap' = thermal_destroy_frees(heap, thermal)
    /\ error' = flare16x_error_make(FLARE16X_ERROR_NONE, FLARE16X_ERROR_SOURCE_THERMAL)
    /\ call' = [op |-> "thermal_destroy"]
    /\ UNCHANGED << locator, canvas, palette, palettes_counts, process_palette, rendered,
                    palette_cache >>

NextDestroy ==
    \/ thermal_create
    \/ \E interpolation_mode \in 0..FLARE16X_THERMAL_INTERPOLATION_COUNT - 1,
          quantification_mode \in 0..FLARE16X_THERMAL_QUANTIFICATION_COUNT - 1,
          junk \in JunkValues :
           thermal_process(interpolation_mode, quantification_mode, junk)
    \/ locator_destroy
    \/ thermal_destroy

SpecDestroy == InitDestroy /\ [][NextDestroy]_vars

(***************************************************************************)
(* The making of the locator (main: "Locator init")                        *)
(***************************************************************************)
\* the allocations of flare16x_locator_create in their order
Allocations == {"none", "bitmap_edit", "text_canvas", "ir_canvas", "text_copy", "ir_copy"}

InitCreate ==
    /\ locator = locator_zero
    /\ thermal = thermal_zero
    /\ canvas = NULL
    /\ palette = FLARE16X_PALETTES_UNKNOWN
    /\ error = FLARE16X_ERROR_NONE
    /\ call = no_call
    /\ palettes_counts = no_counts
    /\ process_palette = FLARE16X_PALETTES_UNKNOWN
    /\ rendered = no_render
    /\ heap = heap_zero
    /\ palette_cache = flare16x_palettes_cache_init

locator_create ==
    /\ call.op = "none"
    /\ \E ir \in IrCanvases, fail_at \in Allocations, junk \in JunkValues :
           /\ \E r \in {flare16x_locator_create(heap, TextCanvas, ir, fail_at, junk)} :
                  /\ error' = r.error
                  /\ locator' = r.locator
                  /\ heap' = r.heap
           /\ call' = [op |-> "locator_create", fail_at |-> fail_at]
    /\ UNCHANGED << thermal, canvas, palette, palettes_counts, process_palette, rendered,
                    palette_cache >>

NextCreate ==
    \/ locator_create
    \/ locator_destroy

SpecCreate == InitCreate /\ [][NextCreate]_vars

(***************************************************************************)
(* The error values and the error stack (main: "Error")                    *)
(***************************************************************************)
\* single errors: NONE, two reasons as main pushes them, and two bytes with
\* a source in the upper four bits
PushedErrors ==
    {FLARE16X_ERROR_NONE, FLARE16X_ERROR_IO, FLARE16X_ERROR_ASSERT,
     FLARE16X_ERROR_SOURCE_LOCATOR * Pow2(FLARE16X_ERROR_WIDTH) + FLARE16X_ERROR_IMAGE,
     FLARE16X_ERROR_SOURCE_THERMAL * Pow2(FLARE16X_ERROR_WIDTH) + FLARE16X_ERROR_CALLEE}

\* what a stack of the capacity holds after e was pushed onto contents
Pushed(contents, e) ==
    IF Len(contents) < FLARE16x_ERROR_CAPACITY THEN Append(contents, e)
    ELSE Append(Tail(contents), e)

\* error: the stack; call.contents: the errors pushed and not yet popped or
\* discarded, the oldest first
InitErrors ==
    /\ locator = locator_zero
    /\ thermal = thermal_zero
    /\ canvas = NULL
    /\ palette = FLARE16X_PALETTES_UNKNOWN
    /\ error = FLARE16X_ERROR_NONE
    /\ call = [op |-> "none", contents |-> << >>]
    /\ palettes_counts = no_counts
    /\ process_palette = FLARE16X_PALETTES_UNKNOWN
    /\ rendered = no_render
    /\ heap = heap_zero
    /\ palette_cache = flare16x_palettes_cache_init

error_make(reason, source) ==
    /\ error' = flare16x_error_make(reason, source)
    /\ call' = [op |-> "error_make", reason |-> reason, source |-> source,
                contents |-> << flare16x_error_make(reason, source) >>]
    /\ UNCHANGED << locator, thermal, canvas, palette, palettes_counts, process_palette,
                    rendered, heap, palette_cache >>

error_push(new_error) ==
    /\ error' = flare16x_error_push(new_error, error)
    /\ call' = [op |-> "error_push", new_error |-> new_error,
                discarded |-> Len(call.contents) = FLARE16x_ERROR_CAPACITY,
                contents |-> Pushed(call.contents, new_error)]
    /\ UNCHANGED << locator, thermal, canvas, palette, palettes_counts, process_palette,
                    rendered, heap, palette_cache >>

error_wrap(new_error) ==
    /\ error' = flare16x_error_wrap(new_error, error)
    /\ call' = [op |-> "error_wrap", new_error |-> new_error,
                discarded |-> Len(call.contents) = FLARE16x_ERROR_CAPACITY,
                contents |-> Pushed(call.contents, new_error)]
    /\ UNCHANGED << locator, thermal, canvas, palette, palettes_counts, process_palette,
                    rendered, heap, palette_cache >>

error_pop ==
    /\ \E r \in {flare16x_error_pop(error)} :
           /\ error' = r.error
           /\ call' = [op |-> "error_pop", latest |-> r.latest,
                       pushed |-> IF call.contents = << >> THEN FLARE16X_ERROR_NONE
                                  ELSE call.contents[Len(call.contents)],
                       contents |-> IF call.contents = << >> THEN << >>
                                    ELSE SubSeq(call.contents, 1, Len(call.contents) - 1)]
    /\ UNCHANGED << locator, thermal, canvas, palette, palettes_counts, process_palette,
                    rendered, heap, palette_cache >>

NextErrors ==
    \/ \E reason \in FLARE16X_ERROR_NONE..FLARE16X_ERROR_OTHER,
          source \in FLARE16X_ERROR_SOURCE_GLOBAL..FLARE16X_ERROR_SOURCE_THERMAL :
           error_make(reason, source)
    \/ \E new_error \in PushedErrors : error_push(new_error)
    \/ \E new_error \in PushedErrors : error_wrap(new_error)
    \/ error_pop

SpecErrors == InitErrors /\ [][NextErrors]_vars

(***************************************************************************)
(* Lookups with one cache on one palette                                   *)
(***************************************************************************)
\* colors looked up: five of GRAYSCALE, black among them, and one of no palette
LookupColors == {0, 32, 2113, 2145, 4226, 4660}

\* values looked up: two covered by GRAYSCALE entries, one covered by none
LookupValues == {5, 250, 255}

\* palette: the palette of the lookups; call.hits: the lookups so far that
\* were answered by the scan of the palette
InitCache ==
    /\ locator = locator_zero
    /\ thermal = thermal_zero
    /\ canvas = NULL
    /\ palette = FLARE16X_PALETTES_GRAYSCALE
    /\ error = FLARE16X_ERROR_NONE
    /\ call = [op |-> "cache_init", hits |-> 0]
    /\ palettes_counts = no_counts
    /\ process_palette = FLARE16X_PALETTES_UNKNOWN
    /\ rendered = no_render
    /\ heap = heap_zero
    /\ palette_cache = flare16x_palettes_cache_init

\* r: what the lookup returned; the lookup was answered by the palette if it
\* found an entry that no slot of the cache held
palettes_lookup(op, argument, r, in_cache) ==
    /\ call.hits < MaxHits
    /\ error' = r.error
    /\ palette_cache' = r.cache
    /\ call' = [op |-> op, argument |-> argument, result_entry |-> r.result_entry,
                from_cache |-> in_cache,
                hits |-> IF ~in_cache /\ r.result_entry # NULL
                         THEN call.hits + 1 ELSE call.hits]
    /\ UNCHANGED << locator, thermal, canvas, palette, palettes_counts, process_palette,
                    rendered, heap >>

palettes_find_color(color) ==
    palettes_lookup("find_color", color,
        flare16x_palettes_find_color(color, palette, palette_cache),
        \E item \in 1..FLARE16X_PALETTES_CACHE_SIZE :
            palette_cache.entries[item].color = color)

palettes_find_value(value) ==
    palettes_lookup("find_value", value,
        flare16x_palettes_find_value(value, palette, palette_cache),
        \E item \in 1..FLARE16X_PALETTES_CACHE_SIZE :
            /\ palette_cache.entries[item].base <= value
            /\ palette_cache.entries[item].base + palette_cache.entries[item].width > value)

NextCache ==
    \/ \E color \in LookupColors : palettes_find_color(color)
    \/ \E value \in LookupValues : palettes_find_value(value)

SpecCache == InitCache /\ [][NextCache]_vars

(***************************************************************************)
(* The drawing of the crosshair onto an exported canvas                    *)
(***************************************************************************)
\* the widest mask
MaxMask == 3

MaskHeights == 1..3

\* the masks of image and crosshair pixels, and each of them with its last
\* pixel invalid
CrosshairMasks ==
    LET plain == UNION {{[width |-> t[1], height |-> t[2], pixels |-> px] :
                            px \in [1..t[1] * t[2] -> {FLARE16X_LOCATOR_DETECT_IMAGE,
                                                         FLARE16X_LOCATOR_DETECT_CROSSHAIR}]} :
                        t \in (1..MaxMask) \X MaskHeights}
    IN  plain \cup {[m EXCEPT !.pixels[m.width * m.height] = FLARE16X_LOCATOR_DETECT_INVALID] :
                       m \in plain}

\* an exported canvas: every pixel another gray, none black or white
ExportedCanvas(width, height) ==
    [width |-> width, height |-> height,
     pixels |-> [i \in 1..width * height |-> palette_grayscale[i + 1].color]]

\* the colors of main and a pair of two other colors
CrosshairColors ==
    {<<FLARE16X_LOCATOR_CROSSHAIR_BORDER, FLARE16X_LOCATOR_CROSSHAIR_FILL>>,
     <<flare16x_canvas_rgb888(255, 0, 0), flare16x_canvas_rgb888(0, 255, 0)>>}

InitCrosshair ==
    /\ locator = locator_zero
    /\ \E m \in CrosshairMasks :
           \/ /\ thermal = [thermal_zero EXCEPT !.mask = m]
              /\ canvas \in {ExportedCanvas(m.width, m.height),
                             ExportedCanvas(m.width + 1, m.height), NULL}
           \/ /\ thermal = thermal_zero
              /\ canvas = ExportedCanvas(m.width, m.height)
    /\ palette = FLARE16X_PALETTES_UNKNOWN
    /\ error = FLARE16X_ERROR_NONE
    /\ call = no_call
    /\ palettes_counts = no_counts
    /\ process_palette = FLARE16X_PALETTES_UNKNOWN
    /\ rendered = no_render
    /\ heap = heap_zero
    /\ palette_cache = flare16x_palettes_cache_init

thermal_crosshair ==
    /\ call.op = "none"
    /\ \E colors \in CrosshairColors :
           LET r == flare16x_thermal_crosshair(colors[1], colors[2], thermal, canvas)
           IN  /\ error' = r.error
               /\ canvas' = r.canvas
               /\ call' = [op |-> "thermal_crosshair", crosshair_border |-> colors[1],
                           crosshair_fill |-> colors[2], canvas |-> canvas]
    /\ UNCHANGED << locator, thermal, palette, palettes_counts, process_palette, rendered,
                    heap, palette_cache >>

NextCrosshair == thermal_crosshair

SpecCrosshair == InitCrosshair /\ [][NextCrosshair]_vars

(***************************************************************************)
(* The recognition of strings                                              *)
(***************************************************************************)
\* the text canvas in black and in white, a canvas of two large glyphs, none
OcrCanvases ==
    {TextCanvas, [TextCanvas EXCEPT !.background = FLARE16X_OCR_LARGE_COLOR],
     [TextCanvas EXCEPT !.width = 2 * FLARE16X_OCR_LARGE_WIDTH], NULL}

\* the arguments of main and of flare16x_thermal_ocr, the last columns and
\* lines that hold a glyph and the next ones, and the ends of the uint16 range
OcrOffsetsX == {0, 2, 110, 112, 152, 153, 160, 161, 65535}
OcrOffsetsY == {0, 1, 3, 11, 12, 65535}
OcrPitches == {0, 1, 65535}
OcrLengths == {0, 1, 2, 6, 9, 40000, 65535}

InitOcrString ==
    /\ locator = locator_zero
    /\ thermal = thermal_zero
    /\ canvas \in OcrCanvases
    /\ palette = FLARE16X_PALETTES_UNKNOWN
    /\ error = FLARE16X_ERROR_NONE
    /\ call = no_call
    /\ palettes_counts = no_counts
    /\ process_palette = FLARE16X_PALETTES_UNKNOWN
    /\ rendered = no_render
    /\ heap = heap_zero
    /\ palette_cache = flare16x_palettes_cache_init

\* a call of a string function, r its outcome
ocr_string_call(op, offset_x, offset_y, pitch, length, max_unknown, r) ==
    /\ error' = r.error
    /\ call' = [op |-> op, offset_x |-> offset_x, offset_y |-> offset_y, pitch |-> pitch,
                length |-> length, max_unknown |-> max_unknown,
                result_string |-> r.result_string]
    /\ UNCHANGED << locator, thermal, canvas, palette, palettes_counts, process_palette,
                    rendered, heap, palette_cache >>

ocr_large_string ==
    /\ call.op = "none"
    /\ \E offset_x \in OcrOffsetsX, offset_y \in OcrOffsetsY, pitch \in OcrPitches,
          length \in OcrLengths, max_unknown \in {0, 1}, passes \in BOOLEAN :
           ocr_string_call("ocr_large_string", offset_x, offset_y, pitch, length,
               max_unknown,
               flare16x_ocr_large_string(offset_x, offset_y, pitch, length, max_unknown,
                                         canvas, passes, << >>))

ocr_small_string ==
    /\ call.op = "none"
    /\ \E offset_x \in OcrOffsetsX, offset_y \in OcrOffsetsY, pitch \in OcrPitches,
          length \in OcrLengths, max_unknown \in {0, 1}, passes \in BOOLEAN :
           ocr_string_call("ocr_small_string", offset_x, offset_y, pitch, length,
               max_unknown,
               flare16x_ocr_small_string(offset_x, offset_y, pitch, length, max_unknown,
                                         canvas, passes, << >>))

NextOcrString == ocr_large_string \/ ocr_small_string

SpecOcrString == InitOcrString /\ [][NextOcrString]_vars
(***************************************************************************)
(* Palette determination: properties                                       *)
(***************************************************************************)
\* two or more palettes share the highest hit count
Tied(counts) ==
    \E a, b \in 1..FLARE16X_PALETTES_COUNT :
        /\ a # b
        /\ counts[a] = counts[b]
        /\ \A k \in 1..FLARE16X_PALETTES_COUNT : counts[k] <= counts[a]

\* C1: flare16x_palettes_determine returns the IMAGE error, and never NONE,
\* whenever two or more palettes share the highest hit count.
C1_TieIsImage ==
    (call.op = "determine" /\ Tied(palettes_counts)) =>
        flare16x_error_reason(error) = FLARE16X_ERROR_IMAGE

ContainsColor(palette_index, color) ==
    \E item \in 1..flare16x_palettes_get_length(palette_index) :
        flare16x_palettes_get(palette_index)[item].color = color

\* the pixels of c, neither black nor white, whose color the palette contains
Counted(c, palette_index) ==
    Cardinality({i \in 1..Len(c.pixels) :
        /\ c.pixels[i] \notin {FLARE16X_LOCATOR_CROSSHAIR_BORDER,
                               FLARE16X_LOCATOR_CROSSHAIR_FILL}
        /\ ContainsColor(palette_index, c.pixels[i])})

\* C2: for every pixel that is neither black nor white, the hit count of
\* every palette that contains the pixel's color is incremented, also when the
\* color belongs to several palettes: after a full scan each palette's count
\* is the number of such pixels whose color it contains.
C2_EveryPaletteCounted ==
    (call.op = "determine" /\ call.max_errors = FLARE16X_PALETTES_IGNORE_ERRORS) =>
        \A k \in 1..FLARE16X_PALETTES_COUNT :
            palettes_counts[k] =
                Counted(locator.ir_canvas, k + FLARE16X_PALETTES_MIN - 1)

(***************************************************************************)
(* Locator: properties                                                     *)
(***************************************************************************)
\* line y reads BORDER, F x FILL, BORDER, E x EYE, BORDER, F x FILL, BORDER
\* from column x on
PatternAt(c, y, x, F, E) ==
    /\ x >= 0
    /\ x + 2 * F + E + FLARE16X_LOCATOR_CROSSHAIR_BORDER_WIDTH <= c.width
    /\ flare16x_canvas_raw(x, y, c) = FLARE16X_LOCATOR_CROSSHAIR_BORDER
    /\ flare16x_canvas_raw(x + F + 1, y, c) = FLARE16X_LOCATOR_CROSSHAIR_BORDER
    /\ flare16x_canvas_raw(x + F + E + 2, y, c) = FLARE16X_LOCATOR_CROSSHAIR_BORDER
    /\ flare16x_canvas_raw(x + 2 * F + E + 3, y, c) = FLARE16X_LOCATOR_CROSSHAIR_BORDER
    /\ \A i \in 1..F :
           /\ flare16x_canvas_raw(x + i, y, c) = FLARE16X_LOCATOR_CROSSHAIR_FILL
           /\ flare16x_canvas_raw(x + F + E + 2 + i, y, c) = FLARE16X_LOCATOR_CROSSHAIR_FILL
    /\ \A i \in 1..E :
           flare16x_canvas_raw(x + F + 1 + i, y, c) \notin
               {FLARE16X_LOCATOR_CROSSHAIR_BORDER, FLARE16X_LOCATOR_CROSSHAIR_FILL}

\* the device models whose pattern line y holds at some start column
PatternModels(c, y) ==
    {m \in {FLARE16X_LOCATOR_MODEL_TG165, FLARE16X_LOCATOR_MODEL_TG167} :
        \E x \in 0..c.width - 1 :
            IF m = FLARE16X_LOCATOR_MODEL_TG165
            THEN PatternAt(c, y, x, FLARE16X_LOCATOR_TG165_FILL_WIDTH,
                           FLARE16X_LOCATOR_TG165_CENTER_WIDTH)
            ELSE PatternAt(c, y, x, FLARE16X_LOCATOR_TG167_FILL_WIDTH,
                           FLARE16X_LOCATOR_TG167_CENTER_WIDTH)}

\* the lines that hold a pattern; a line of background only holds none
PatternLines(c) ==
    {y \in 0..c.height - 1 :
        ~canvas_background_only(c, y, 0, c.width - 1) /\ PatternModels(c, y) # {}}

\* C3: when no row of the IR canvas matches the crosshair pattern,
\* flare16x_locator_process returns reason NONE and sets device_model to
\* UNKNOWN.
C3_NoMatchSucceeds ==
    (call.op = "locator_process" /\ PatternLines(locator.ir_canvas) = {}) =>
        /\ flare16x_error_reason(error) = FLARE16X_ERROR_NONE
        /\ locator.device_model = FLARE16X_LOCATOR_MODEL_UNKNOWN

\* C4: if a row holds the exact pattern of a model at any start column, then
\* flare16x_locator_process detects a model, whatever precedes the pattern on
\* that row.
C4_PatternDetected ==
    (call.op = "locator_process" /\ PatternLines(locator.ir_canvas) # {}) =>
        /\ flare16x_error_reason(error) = FLARE16X_ERROR_NONE
        /\ locator.device_model \in {FLARE16X_LOCATOR_MODEL_TG165,
                                     FLARE16X_LOCATOR_MODEL_TG167}

\* the line and the first column of the segment the locator matched
MatchedLine(target_row) == uint16(locator.crosshair_y + target_row)
MatchedColumn == uint16(locator.crosshair_x)

\* C5: TG165 is reported only if the matched row segment is exactly BORDER,
\* 7 FILL, BORDER, 5 EYE, BORDER, 7 FILL, BORDER, and TG167 only if it is
\* exactly BORDER, 14 FILL, BORDER, 17 EYE, BORDER, 14 FILL, BORDER.
C5_ExactSegment ==
    /\ (call.op = "locator_process" /\
        locator.device_model = FLARE16X_LOCATOR_MODEL_TG165) =>
           PatternAt(locator.ir_canvas,
                     MatchedLine(FLARE16X_LOCATOR_TG165_TARGET_ROW), MatchedColumn,
                     FLARE16X_LOCATOR_TG165_FILL_WIDTH,
                     FLARE16X_LOCATOR_TG165_CENTER_WIDTH)
    /\ (call.op = "locator_process" /\
        locator.device_model = FLARE16X_LOCATOR_MODEL_TG167) =>
           PatternAt(locator.ir_canvas,
                     MatchedLine(FLARE16X_LOCATOR_TG167_TARGET_ROW), MatchedColumn,
                     FLARE16X_LOCATOR_TG167_FILL_WIDTH,
                     FLARE16X_LOCATOR_TG167_CENTER_WIDTH)

(***************************************************************************)
(* Palette tables: properties                                              *)
(***************************************************************************)
\* the ranges are disjoint and sorted by base, no width is 0, no color
\* occurs twice
Partition(palette_index) ==
    LET table == flare16x_palettes_get(palette_index)
        length == flare16x_palettes_get_length(palette_index)
    IN  /\ \A i \in 1..length : table[i].width >= 1
        /\ \A i, j \in 1..length :
               i < j => /\ table[i].base + table[i].width <= table[j].base
                        /\ table[i].color # table[j].color

\* C10: in every palette table the ranges [base, base + width) of two
\* distinct entries are disjoint, the entries are sorted by base, every width
\* is at least 1 and no color occurs in two entries of the same palette.
C10_PalettePartition ==
    call.op = "determine" =>
        \A palette_index \in FLARE16X_PALETTES_MIN..FLARE16X_PALETTES_MAX :
            Partition(palette_index)

(***************************************************************************)
(* Thermal core: properties                                                *)
(***************************************************************************)
\* the entry a fresh flare16x_palettes_find_value finds for the value
RenderedEntry(palette_index, value) ==
    flare16x_palettes_find_value(value, palette_index,
                                 flare16x_palettes_cache_init).result_entry

\* the mask holds image pixels only
NoCrosshair(mask) ==
    \A i \in 1..Len(mask.pixels) : mask.pixels[i] = FLARE16X_LOCATOR_DETECT_IMAGE

\* C6: for an IR canvas without crosshair pixels whose pixels are all colors
\* of one palette P that determine yields, flare16x_thermal_process with a
\* non-EXACT quantization followed by flare16x_thermal_export with P produces
\* a canvas identical, pixel for pixel, to the IR canvas.
C6_ProcessExportIdentity ==
    (/\ call.op = "thermal_export"
     /\ thermal.visible_image # NULL
     /\ process_palette = call.palette_index
     /\ thermal.thermal_image.mode # FLARE16X_THERMAL_QUANTIFICATION_EXACT
     /\ NoCrosshair(thermal.mask)
     /\ \A i \in 1..Len(thermal.visible_image.pixels) :
            ContainsColor(call.palette_index, thermal.visible_image.pixels[i])) =>
        /\ flare16x_error_reason(error) = FLARE16X_ERROR_NONE
        /\ canvas.width = thermal.visible_image.width
        /\ canvas.height = thermal.visible_image.height
        /\ canvas.pixels = thermal.visible_image.pixels

\* C7: flare16x_thermal_export returns NONE for every intensity image and
\* every supported palette index.
C7_ExportSucceeds ==
    (call.op = "thermal_export" /\
     call.palette_index \in FLARE16X_PALETTES_MIN..FLARE16X_PALETTES_MAX) =>
        flare16x_error_reason(error) = FLARE16X_ERROR_NONE

\* a rendered image was loaded again and inverted with the palette it was
\* rendered with
Inverted ==
    /\ call.op = "thermal_process"
    /\ rendered.points # << >>
    /\ process_palette = rendered.palette_index

\* C8: when an intensity is rendered through palette P (find_value gives
\* entry e, color e.color) and that color is inverted by
\* flare16x_thermal_process with FLOOR, CEILING, MEDIAN_LOW or MEDIAN_HIGH, the
\* recovered value lies in [e.base, e.base + e.width) and its uncertainty is
\* e.width.
C8_QuantizedRoundTrip ==
    (/\ Inverted
     /\ call.quantification_mode # FLARE16X_THERMAL_QUANTIFICATION_EXACT
     /\ flare16x_error_reason(error) = FLARE16X_ERROR_NONE) =>
        \A i \in 1..Len(rendered.points) :
            LET e == RenderedEntry(rendered.palette_index, rendered.points[i].value)
                point == thermal.thermal_image.points[i]
            IN  /\ thermal.visible_image.pixels[i] = e.color
                /\ point.value >= e.base
                /\ point.value < e.base + e.width
                /\ point.uncertainty = e.width

\* an inversion recovered the highest value of an entry wider than 1, not
\* the value that was rendered
C8_Witness ==
    /\ Inverted
    /\ call.quantification_mode = FLARE16X_THERMAL_QUANTIFICATION_CEILING
    /\ flare16x_error_reason(error) = FLARE16X_ERROR_NONE
    /\ \E i \in 1..Len(rendered.points) :
           /\ thermal.thermal_image.points[i].value > rendered.points[i].value
           /\ thermal.thermal_image.points[i].uncertainty > 1

\* C9 as stated, for GRAYSCALE, the palette whose table is at hand: rendering
\* an EXACT intensity image with P and inverting the rendered canvas with the
\* same P and quantization EXACT succeeds and returns the original
\* intensities.
C9_ExactRoundTrip ==
    (/\ Inverted
     /\ rendered.palette_index = FLARE16X_PALETTES_GRAYSCALE
     /\ call.quantification_mode = FLARE16X_THERMAL_QUANTIFICATION_EXACT) =>
        /\ flare16x_error_reason(error) = FLARE16X_ERROR_NONE
        /\ \A i \in 1..Len(rendered.points) :
               thermal.thermal_image.points[i].value = rendered.points[i].value

\* C9 as amended: the EXACT inversion of a canvas rendered with P fails with
\* IMAGE when a rendered entry is wider than 1, and whenever it succeeds it
\* returns the original intensities, each with uncertainty 1.
C9_ExactRoundTripWidthOne ==
    (Inverted /\ call.quantification_mode = FLARE16X_THERMAL_QUANTIFICATION_EXACT) =>
        /\ (\E i \in 1..Len(rendered.points) :
                RenderedEntry(rendered.palette_index,
                              rendered.points[i].value).width # 1) =>
               flare16x_error_reason(error) = FLARE16X_ERROR_IMAGE
        /\ flare16x_error_reason(error) = FLARE16X_ERROR_NONE =>
               \A i \in 1..Len(rendered.points) :
                   /\ thermal.thermal_image.points[i].value = rendered.points[i].value
                   /\ thermal.thermal_image.points[i].uncertainty = 1

\* an EXACT inversion of a canvas rendered with GRAYSCALE, all of whose entries
\* are wider than 1, was refused with IMAGE
C9_Witness ==
    /\ Inverted
    /\ rendered.palette_index = FLARE16X_PALETTES_GRAYSCALE
    /\ call.quantification_mode = FLARE16X_THERMAL_QUANTIFICATION_EXACT
    /\ flare16x_error_reason(error) = FLARE16X_ERROR_IMAGE
    /\ \E i \in 1..Len(rendered.points) :
           RenderedEntry(rendered.palette_index, rendered.points[i].value).width > 1
(***************************************************************************)
(* The inversion: the mask, the passes and the assertions                  *)
(***************************************************************************)
\* flare16x_thermal_process has returned NONE
Processed ==
    /\ call.op = "thermal_process"
    /\ flare16x_error_reason(error) = FLARE16X_ERROR_NONE

\* the class flare16x_thermal_create gave to point i of the mask
CreatedMask(i) ==
    flare16x_locator_detect([locator EXCEPT !.ir_canvas = thermal.visible_image],
                            (i - 1) % thermal.mask.width, (i - 1) \div thermal.mask.width)

\* C11 as stated: whenever flare16x_thermal_process returns NONE, the
\* skipped-pixel counter is 0 and every entry of the thermal mask is IMAGE.
C11_SkipAccounting ==
    Processed =>
        /\ call.skipped_points = 0
        /\ \A i \in 1..Len(thermal.mask.pixels) :
               thermal.mask.pixels[i] = FLARE16X_LOCATOR_DETECT_IMAGE

\* C11 as amended: whenever flare16x_thermal_process returns NONE, the
\* skipped-pixel counter is 0 and no entry of the mask is INVALID: every entry
\* has the class flare16x_thermal_create gave it, IMAGE or CROSSHAIR.
C11_SkipAccountingNoInvalid ==
    Processed =>
        /\ call.skipped_points = 0
        /\ \A i \in 1..Len(thermal.mask.pixels) :
               /\ thermal.mask.pixels[i] \in {FLARE16X_LOCATOR_DETECT_IMAGE,
                                              FLARE16X_LOCATOR_DETECT_CROSSHAIR}
               /\ thermal.mask.pixels[i] = CreatedMask(i)

\* a second pass that cleared an invalid pixel and left the crosshair in the
\* mask has returned NONE
C11_Witness ==
    /\ Processed
    /\ call.second_pass
    /\ \E i \in 1..Len(thermal.mask.pixels) :
           thermal.mask.pixels[i] = FLARE16X_LOCATOR_DETECT_CROSSHAIR
    /\ \E i \in 1..Len(thermal.mask.pixels) :
           /\ thermal.mask.pixels[i] = FLARE16X_LOCATOR_DETECT_IMAGE
           /\ flare16x_error_reason(flare16x_palettes_find_color(
                  thermal.visible_image.pixels[i], process_palette,
                  flare16x_palettes_cache_init).error) = FLARE16X_ERROR_IMAGE
\* C12: with interpolation mode ZERO, flare16x_thermal_process never executes
\* the second pass and returns NONE with every CROSSHAIR pixel set to value 0
\* and uncertainty 1, on every IR canvas on which the palette determination
\* succeeds, even if image pixels have a color that is not in that palette
\* (the quantization is not EXACT, which refuses wide palette entries).
C12_ZeroSkipsSecondPass ==
    (/\ call.op = "thermal_process"
     /\ call.interpolation_mode = FLARE16X_THERMAL_INTERPOLATION_ZERO
     /\ call.quantification_mode # FLARE16X_THERMAL_QUANTIFICATION_EXACT
     /\ process_palette # FLARE16X_PALETTES_UNKNOWN) =>
        /\ ~call.second_pass
        /\ flare16x_error_reason(error) = FLARE16X_ERROR_NONE
        /\ \A i \in 1..Len(thermal.mask.pixels) :
               thermal.mask.pixels[i] = FLARE16X_LOCATOR_DETECT_CROSSHAIR =>
                   thermal.thermal_image.points[i] = [value |-> 0, uncertainty |-> 1]
\* C13: flare16x_thermal_process never returns the ASSERT reason, for any
\* context made by flare16x_thermal_create and any interpolation and
\* quantization mode in range.
C13_NoAssert ==
    call.op = "thermal_process" =>
        flare16x_error_reason(error) # FLARE16X_ERROR_ASSERT

(***************************************************************************)
(* The spot temperature: properties                                        *)
(***************************************************************************)
\* the temperature of the last call was parsed and stored
TemperatureStored ==
    /\ call.op = "thermal_ocr"
    /\ thermal.text_image # NULL
    /\ flare16x_error_reason(call.temperature_error) = FLARE16X_ERROR_NONE
    /\ flare16x_error_reason(call.emissivity_error) = FLARE16X_ERROR_NONE

\* the sign s of a text
TextSign(text) == IF text.minus THEN -1 ELSE 1

\* C14: a recognized text of sign s, integer part i, fractional digit f and
\* unit C stores temperature_spot = s * (10 * i + f), so that every text
\* with a minus sign stores a value <= 0, also if the integer part is 0
C14_SignedTenths ==
    (TemperatureStored /\ call.text.unit = "C") =>
        /\ thermal.temperature_spot =
               TextSign(call.text) * (10 * call.text.integer + call.text.fractional)
        /\ call.text.minus => thermal.temperature_spot <= 0

\* C15: a recognized text in degrees Fahrenheit of t tenths stores the
\* integer nearest to (t - 320) * 5 / 9: twice the difference of nine times
\* the stored value and (t - 320) * 5 is at most 9, for negative results too
\* (texts "-0.f", whose sign %d does not return, aside)
C15_FahrenheitNearest ==
    (TemperatureStored /\ call.text.unit = "F" /\
     ~(call.text.minus /\ call.text.integer = 0)) =>
        LET t == TextSign(call.text) * (10 * call.text.integer + call.text.fractional)
            d == 9 * thermal.temperature_spot - (t - 320) * 5
        IN  2 * d <= 9 /\ 2 * d >= -9

(***************************************************************************)
(* The ownership of the canvases and the mask: properties                  *)
(***************************************************************************)
\* the blocks flare16x_thermal_create hands over or allocates
CreatedBlocks == {"text_canvas", "text_pixels", "ir_canvas", "ir_pixels", "mask"}

\* flare16x_thermal_create has succeeded: the mask was allocated
Created == heap["mask"].live \/ heap["mask"].frees > 0

\* C16: after a successful flare16x_thermal_create the locator's text_canvas
\* and ir_canvas are NULL and the thermal context holds them; over every
\* following order of flare16x_locator_destroy and flare16x_thermal_destroy
\* calls no canvas struct, pixel buffer or mask is freed twice or used after
\* its free, and once the thermal context is destroyed each was freed once
C16_FreedOnce ==
    /\ (call.op = "thermal_create" /\ flare16x_error_reason(error) = FLARE16X_ERROR_NONE) =>
           /\ locator.text_canvas = NULL /\ locator.ir_canvas = NULL
           /\ thermal.text_image # NULL /\ thermal.visible_image # NULL
    /\ Created =>
           \A b \in CreatedBlocks :
               /\ heap[b].frees <= 1
               /\ ~heap[b].stale
               /\ heap[b].live <=> heap[b].frees = 0
               /\ call.op = "thermal_destroy" => heap[b].frees = 1

\* both destroys have run after a successful flare16x_thermal_create, the
\* locator's last
C16_Witness ==
    /\ Created
    /\ call.op = "locator_destroy"
    /\ \A b \in CreatedBlocks : heap[b].frees = 1 /\ ~heap[b].live

\* C17: when flare16x_locator_create returns an error after it has allocated
\* something, every block allocated during the call, the pixel buffer of the
\* full screenshot canvas included, is freed and the locator holds no pointer
\* to a freed block
C17_CreateFailureFreesAll ==
    (call.op = "locator_create" /\ call.fail_at \notin {"none", "bitmap_edit"}) =>
        /\ \A b \in HeapBlocks : ~heap[b].live
        /\ locator.text_canvas # NULL => heap["text_canvas"].live
        /\ locator.ir_canvas # NULL => heap["ir_canvas"].live

C19_MakeCarriesSource ==
    call.op = "error_make" =>
        /\ flare16x_error_source(error) = call.source
        /\ flare16x_error_reason(error) = call.reason

\* the errors the stack holds, the latest in the lowest byte
RECURSIVE StackOf(_)
StackOf(contents) ==
    IF contents = << >> THEN 0
    ELSE StackOf(SubSeq(contents, 1, Len(contents) - 1)) *
             Pow2(FLARE16X_ERROR_WIDTH + FLARE16X_ERROR_SOURCE_WIDTH) +
         contents[Len(contents)]

\* C20: the error stack is last-in first-out with capacity 4: it holds the
\* errors pushed or wrapped and not yet popped, a push onto four errors
\* discards the oldest only, flare16x_error_pop returns the latest error
\* pushed, flare16x_error_latest is that error, and the stack is empty (0)
\* once all of them are popped
C20_StackLifo ==
    /\ Len(call.contents) <= FLARE16x_ERROR_CAPACITY
    /\ error = StackOf(call.contents)
    /\ call.op = "error_pop" => call.latest = call.pushed
    /\ call.contents # << >> =>
           flare16x_error_latest(error) = call.contents[Len(call.contents)]
    /\ call.contents = << >> => error = FLARE16X_ERROR_NONE

\* a fifth error was pushed onto four: the oldest is gone, the other four
\* are on the stack in their order
C20_Witness ==
    /\ call.op = "error_push"
    /\ call.discarded
    /\ call.contents =
           << FLARE16X_ERROR_IO, FLARE16X_ERROR_ASSERT,
              FLARE16X_ERROR_SOURCE_THERMAL * Pow2(FLARE16X_ERROR_WIDTH) +
                  FLARE16X_ERROR_CALLEE,
              FLARE16X_ERROR_IO >>
    /\ flare16x_error_latest(error) = FLARE16X_ERROR_IO

Mismatches(c) ==
    {i \in 1..Len(c.pixels) :
        /\ c.pixels[i] \notin {FLARE16X_LOCATOR_CROSSHAIR_BORDER,
                               FLARE16X_LOCATOR_CROSSHAIR_FILL}
        /\ \A k \in FLARE16X_PALETTES_MIN..FLARE16X_PALETTES_MAX :
               \A item \in 1..flare16x_palettes_get_length(k) :
                   flare16x_palettes_get(k)[item].color # c.pixels[i]}

\* C22: for every max_errors N other than IGNORE_ERRORS, N = 0 included,
\* flare16x_palettes_determine returns IMAGE on a canvas with at least
\* max(N, 1) pixels that are neither black nor white and match no palette
C22_BudgetNeverWraps ==
    (/\ call.op = "determine"
     /\ call.max_errors # FLARE16X_PALETTES_IGNORE_ERRORS
     /\ Cardinality(Mismatches(locator.ir_canvas)) >=
            (IF call.max_errors < 1 THEN 1 ELSE call.max_errors)) =>
        flare16x_error_reason(error) = FLARE16X_ERROR_IMAGE

\* the mask flare16x_thermal_create builds from the locator as it stands
BuiltMask == flare16x_thermal_create(locator, thermal_zero).thermal.mask

\* C23: after flare16x_locator_process has found a crosshair or set the model
\* to UNKNOWN, the mask flare16x_thermal_create builds from the locator holds
\* IMAGE or CROSSHAIR for every pixel of the IR canvas: no pixel is FAIL,
\* OUT_OF_BOUNDS or INVALID
C23_MaskComplete ==
    (call.op = "locator_process" /\
     flare16x_error_reason(error) \in {FLARE16X_ERROR_NONE, FLARE16X_ERROR_IMAGE}) =>
        /\ BuiltMask.width = FLARE16X_LOCATOR_IR_WIDTH
        /\ BuiltMask.height = FLARE16X_LOCATOR_IR_HEIGHT
        /\ \A y \in 0..FLARE16X_LOCATOR_IR_HEIGHT - 1 :
               \A x \in 0..FLARE16X_LOCATOR_IR_WIDTH - 1 :
                   flare16x_locator_detect(locator, x, y) \in
                       {FLARE16X_LOCATOR_DETECT_IMAGE, FLARE16X_LOCATOR_DETECT_CROSSHAIR}

\* a crosshair was found below the target row, and the mask holds both classes
C23_Witness ==
    /\ call.op = "locator_process"
    /\ locator.device_model = FLARE16X_LOCATOR_MODEL_TG165
    /\ locator.crosshair_y = 30 - FLARE16X_LOCATOR_TG165_TARGET_ROW
    /\ flare16x_locator_detect(locator, locator.crosshair_x + 10, locator.crosshair_y) =
           FLARE16X_LOCATOR_DETECT_CROSSHAIR
    /\ flare16x_locator_detect(locator, locator.crosshair_x, locator.crosshair_y) =
           FLARE16X_LOCATOR_DETECT_IMAGE
    /\ BuiltMask.pixels[1] = FLARE16X_LOCATOR_DETECT_IMAGE

\* the class of the mask pixel at (x, y), OUT_OF_BOUNDS outside the mask
MaskAt(x, y) ==
    IF x < 0 \/ y < 0 \/ x >= thermal.mask.width \/ y >= thermal.mask.height
    THEN FLARE16X_LOCATOR_DETECT_BOUNDS
    ELSE thermal.mask.pixels[y * thermal.mask.width + x + 1]

\* the crosshair pixel (x, y) starts a horizontal or vertical run of crosshair
\* pixels, or ends one in front of an image pixel
RunEdge(x, y) ==
    \/ MaskAt(x - 1, y) # FLARE16X_LOCATOR_DETECT_CROSSHAIR
    \/ MaskAt(x, y - 1) # FLARE16X_LOCATOR_DETECT_CROSSHAIR
    \/ MaskAt(x + 1, y) = FLARE16X_LOCATOR_DETECT_IMAGE
    \/ MaskAt(x, y + 1) = FLARE16X_LOCATOR_DETECT_IMAGE

\* C24: after flare16x_thermal_crosshair returned NONE every image pixel of
\* the canvas is unchanged, and every crosshair pixel holds the border color
\* if it is the first pixel of a horizontal or vertical run of crosshair
\* pixels or the last pixel of such a run in front of an image pixel, and the
\* fill color otherwise
C24_CrosshairDrawn ==
    (call.op = "thermal_crosshair" /\
     flare16x_error_reason(error) = FLARE16X_ERROR_NONE) =>
        \A y \in 0..thermal.mask.height - 1 : \A x \in 0..thermal.mask.width - 1 :
            flare16x_canvas_raw(x, y, canvas) =
                IF MaskAt(x, y) = FLARE16X_LOCATOR_DETECT_IMAGE
                THEN flare16x_canvas_raw(x, y, call.canvas)
                ELSE IF RunEdge(x, y) THEN call.crosshair_border
                ELSE call.crosshair_fill

\* a mask of three lines of three crosshair pixels but for the image pixel
\* in the last corner: the middle pixel is filled, the two crosshair pixels
\* next to the image pixel close their runs, the image pixel is kept
C24_Witness ==
    /\ call.op = "thermal_crosshair"
    /\ flare16x_error_reason(error) = FLARE16X_ERROR_NONE
    /\ thermal.mask.width = 3
    /\ thermal.mask.height = 3
    /\ \A y \in 0..2 : \A x \in 0..2 :
           MaskAt(x, y) = IF x = 2 /\ y = 2 THEN FLARE16X_LOCATOR_DETECT_IMAGE
                          ELSE FLARE16X_LOCATOR_DETECT_CROSSHAIR
    /\ call.crosshair_border # call.crosshair_fill
    /\ flare16x_canvas_raw(1, 1, canvas) = call.crosshair_fill
    /\ flare16x_canvas_raw(1, 2, canvas) = call.crosshair_border
    /\ flare16x_canvas_raw(2, 1, canvas) = call.crosshair_border
    /\ flare16x_canvas_raw(2, 2, canvas) = flare16x_canvas_raw(2, 2, call.canvas)

(***************************************************************************)
(* The replacement of the crosshair: properties                            *)
(***************************************************************************)
\* point i got its intensity from the palette entry of its color
PaletteDerived(i) ==
    /\ CreatedMask(i) = FLARE16X_LOCATOR_DETECT_IMAGE
    /\ ContainsColor(process_palette, thermal.visible_image.pixels[i])

\* the intensities of the palette-derived points of the intensity image
DerivedValues ==
    {thermal.thermal_image.points[i].value :
        i \in {j \in 1..Len(thermal.mask.pixels) : PaletteDerived(j)}}

\* C25: with interpolation MIN (MAX), after flare16x_thermal_process returned
\* NONE every point that was CROSSHAIR or INVALID holds the lowest (highest)
\* intensity among the palette-derived points of the resulting intensity
\* image, in every quantization mode
C25_MinMaxOfImage ==
    (Processed /\ call.interpolation_mode \in {FLARE16X_THERMAL_INTERPOLATION_MIN,
                                               FLARE16X_THERMAL_INTERPOLATION_MAX}) =>
        \A i \in 1..Len(thermal.mask.pixels) :
            ~PaletteDerived(i) =>
                /\ DerivedValues # {}
                /\ \A v \in DerivedValues :
                       IF call.interpolation_mode = FLARE16X_THERMAL_INTERPOLATION_MIN
                       THEN thermal.thermal_image.points[i].value <= v
                       ELSE thermal.thermal_image.points[i].value >= v
                /\ thermal.thermal_image.points[i].value \in DerivedValues

\* sum and count of the palette-derived points j.. of the intensity image
\* that lie within radius of (x, y)
RECURSIVE DerivedSquare(_, _, _, _)
DerivedSquare(x, y, radius, j) ==
    IF j > Len(thermal.mask.pixels) THEN [sum |-> 0, count |-> 0]
    ELSE LET rest == DerivedSquare(x, y, radius, j + 1)
             px == (j - 1) % thermal.mask.width
             py == (j - 1) \div thermal.mask.width
         IN  IF /\ PaletteDerived(j)
                /\ px - x >= -radius /\ px - x <= radius
                /\ py - y >= -radius /\ py - y <= radius
             THEN [sum |-> rest.sum + thermal.thermal_image.points[j].value,
                   count |-> rest.count + 1]
             ELSE rest

\* C26: in SQUARE_LARGE mode a point that was CROSSHAIR or INVALID is replaced
\* by floor(S / N) with S = S13 + 4 * S3 + S5 and N = N13 + 4 * N3 + N5, the
\* sums and counts of the image-class points inside the image within 6, 1
\* and 2 of the point
C26_LargeSquareWeighted ==
    (Processed /\ call.interpolation_mode = FLARE16X_THERMAL_INTERPOLATION_SQUARE_LARGE) =>
        \A i \in 1..Len(thermal.mask.pixels) :
            ~PaletteDerived(i) =>
                LET x == (i - 1) % thermal.mask.width
                    y == (i - 1) \div thermal.mask.width
                    w13 == DerivedSquare(x, y, 6, 1)
                    w3 == DerivedSquare(x, y, 1, 1)
                    w5 == DerivedSquare(x, y, 2, 1)
                    S == w13.sum + 4 * w3.sum + w5.sum
                    N == w13.count + 4 * w3.count + w5.count
                IN  /\ N > 0
                    /\ thermal.thermal_image.points[i].value = S \div N

(***************************************************************************)
(* The recognition of strings: properties                                  *)
(***************************************************************************)
\* the glyph of the last call
CalledGlyph == IF call.op = "ocr_large_string" THEN ocr_large_glyph ELSE ocr_small_glyph

\* the box of glyph i of the last call lies inside the canvas
BoxInside(i) ==
    /\ call.offset_x + i * (CalledGlyph.width + call.pitch) + CalledGlyph.width <=
           canvas.width
    /\ call.offset_y + CalledGlyph.height <= canvas.height

\* C27: the range check of flare16x_ocr_large_string and
\* flare16x_ocr_small_string is exact for all uint16 arguments: the call is
\* accepted if and only if length > 0 and every glyph box, at
\* x + i * (glyph width + pitch), lies inside the canvas, and no character of
\* an accepted call fails its own bounds check
C27_RangeExact ==
    (call.op \in {"ocr_large_string", "ocr_small_string"} /\ canvas # NULL) =>
        /\ flare16x_error_reason(error) # FLARE16X_ERROR_RANGE <=>
               (call.length > 0 /\ \A i \in 0..call.length - 1 : BoxInside(i))
        /\ flare16x_error_reason(error) # FLARE16X_ERROR_IMAGE

(***************************************************************************)
(* The palette cache: transparency                                         *)
(***************************************************************************)
\* a plain linear scan of the palette for a color
ScanColor(palette_index, color) ==
    LET found == {item \in 1..flare16x_palettes_get_length(palette_index) :
                     flare16x_palettes_get(palette_index)[item].color = color}
    IN  IF found = {}
        THEN [reason |-> FLARE16X_ERROR_IMAGE, result_entry |-> NULL]
        ELSE [reason |-> FLARE16X_ERROR_NONE,
              result_entry |-> flare16x_palettes_get(palette_index)[
                  CHOOSE item \in found : \A other \in found : item <= other]]

\* C28: in every cache state reached from flare16x_palettes_cache_init by
\* lookups on one palette, the fresh cache included,
\* flare16x_palettes_find_color returns the reason and the entry (base, width,
\* color) a plain linear scan of the palette returns
C28_CacheTransparent ==
    call.op = "find_color" =>
        /\ flare16x_error_reason(error) = ScanColor(palette, call.argument).reason
        /\ call.result_entry = ScanColor(palette, call.argument).result_entry

(***************************************************************************)
(* The crosshair geometry: properties                                      *)
(***************************************************************************)
\* the target row of the detected model
DetectedTargetRow ==
    IF locator.device_model = FLARE16X_LOCATOR_MODEL_TG165
    THEN FLARE16X_LOCATOR_TG165_TARGET_ROW ELSE FLARE16X_LOCATOR_TG167_TARGET_ROW

\* C29: whenever flare16x_locator_process detects a model, the crosshair and
\* the aperture rectangle it stores lie inside the 150 x 175 IR canvas, and
\* crosshair_y + target row is the matched row: no coordinate has wrapped
\* around, on whatever row the pattern was matched
C29_GeometryInside ==
    (call.op = "locator_process" /\
     locator.device_model \in {FLARE16X_LOCATOR_MODEL_TG165,
                               FLARE16X_LOCATOR_MODEL_TG167}) =>
        /\ locator.crosshair_x + locator.crosshair_width <= FLARE16X_LOCATOR_IR_WIDTH
        /\ locator.crosshair_y + locator.crosshair_height <= FLARE16X_LOCATOR_IR_HEIGHT
        /\ locator.crosshair_y + DetectedTargetRow = locator_lines(locator.ir_canvas).y
        /\ locator.aperture_x + locator.aperture_width <= FLARE16X_LOCATOR_IR_WIDTH
        /\ locator.aperture_y + locator.aperture_height <= FLARE16X_LOCATOR_IR_HEIGHT

(***************************************************************************)
(* A failed flare16x_thermal_process: properties                           *)
(***************************************************************************)
\* C30: when flare16x_thermal_process returns an error, the thermal context
\* is as before the call: the intensity image is the one held before (NULL
\* if none was held) and every mask entry has its previous class, with no
\* INVALID entry left behind
C30_FailureRestores ==
    [][(call'.op = "thermal_process" /\
        flare16x_error_reason(error') # FLARE16X_ERROR_NONE) =>
           /\ thermal'.thermal_image = thermal.thermal_image
           /\ thermal'.mask = thermal.mask
           /\ \A i \in 1..Len(thermal'.mask.pixels) :
                  thermal'.mask.pixels[i] # FLARE16X_LOCATOR_DETECT_INVALID]_vars

====
